---------------------------- MODULE Spec2Model ----------------------------
(***************************************************************************)
(* Count-min sketch family of oudalab/cms_topn:                            *)
(*   src/cms.c       plain count-min sketch (no top-n)                     *)
(*   src/cms_topn.c  count-min sketch with a top-n array (CmsTopn)         *)
(*   src/cms_mms.c   count-min sketch with a top-n array (CountMinSketch)  *)
(*                   and the min-mask sketch                               *)
(*                                                                         *)
(* A sketch is a record; the counter matrix "sketch" is indexed from 0 as  *)
(* the C array is (cell hashIndex * sketchWidth + widthIndex).             *)
(***************************************************************************)
EXTENDS Integers, Sequences, FiniteSets, TLC

VARIABLES
    cms,            \* src/cms.c: the plain CountMinSketch
    trueFrequency,  \* history: how many times cms_add was performed per item
    cmsLast,        \* history: the last operation on cms, its input and result
    variant,        \* which top-n implementation runs: "cms_topn" or "cms_mms"
    first,          \* top-n sketch a (merge's first operand, holds merge's result)
    second,         \* top-n sketch b (merge's second operand)
    stream1,        \* history: the items added to first, in order
    stream2,        \* history: the items added to second, in order
    unions,         \* history: number of unions performed
    topnLast,       \* history: the last top-n operation and the offers it made
    mms,            \* src/cms_mms.c: the MinMaskSketch
    addedMask,      \* history: per item, every bit of every mask given to mms_add
    mmsLast,        \* history: the last operation on mms, its input and result
    createLast,     \* history: the last call of a creating function
    agg,            \* the transition state of an aggregate and its history
    wide,           \* history: the last estimate returned from 64-bit counters
    storage         \* the space a cms_mms.c sketch reserves for its top-n array

vars == <<cms, trueFrequency, cmsLast, variant, first, second,
          stream1, stream2, unions, topnLast, mms, addedMask, mmsLast,
          createLast, agg, wide, storage>>

cmsVars == <<cms, trueFrequency, cmsLast>>

topnVars == <<variant, first, second, stream1, stream2, unions, topnLast>>

mmsVars == <<mms, addedMask, mmsLast>>

---------------------------------------------------------------------------
(* Bounds of the model *)

\* most cms_add calls on the plain sketch
MaxCmsAdds == 5

\* most add calls on the two top-n sketches together
MaxAdds == 4

\* most union calls
MaxUnions == 1

\* geometry of the sketches: what _createCms computes for an error bound in
\* [e/3, 1) and a confidence interval in (1 - 1/e, 1 - 1/e^2]
ModelWidth == 3

ModelDepth == 2

---------------------------------------------------------------------------
(* Program constants *)

\* the largest uint64; TLC integers are 32 bits wide, so the type's maximum
\* is represented by the largest TLC integer (no counter of the model gets
\* near it)
UINT64_MAX == 2147483647

\* #define MAX_FREQUENCY ULONG_MAX
MAX_FREQUENCY == 2147483647

---------------------------------------------------------------------------
(* Items and their hashes *)

\* The items the operations are called with.  An item stands for a Datum of
\* one type; two items are datumIsEqual iff they are the same element.
Items == {"x", "w", "z", "y"}

\* The two 64-bit lanes MurmurHash3_x64_128 returns for the bytes of an item.
\* With sketchWidth 3 and sketchDepth 2 the cells (row 0, row 1) are
\*   x: (0, 0)   w: (0, 1)   z: (1, 0)   y: (2, 2)   t: (1, 2)
\* so x shares one cell with w and one with z, and y is alone but for t.
MurmurHash3_x64_128(item) ==
    CASE item = "x" -> <<0, 0>>
      [] item = "w" -> <<0, 1>>
      [] item = "z" -> <<1, 2>>
      [] item = "y" -> <<2, 0>>
      [] item = "t" -> <<1, 1>>

\* the Oid of no type: the element type of a top-n array that does not exist
InvalidOid == "InvalidOid"

\* get_fn_expr_argtype: the type Oid of the item argument of a call.  The
\* items of Items are of one type, the item t is of another type.
TypeOf(item) == IF item = "t" THEN "text" ELSE "int8"

Min(a, b) == IF a < b THEN a ELSE b

Max(a, b) == IF a > b THEN a ELSE b

\* a counter index without the offset of the row
CounterIndexNoOffset(sketchWidth, hashValueArray, hashIndex) ==
    (hashValueArray[1] + (hashIndex * hashValueArray[2])) % sketchWidth

\* counterIndex of row hashIndex:
\*   hashValue = hashValueArray[0] + hashIndex * hashValueArray[1]
\*   widthIndex = hashValue % sketchWidth;  depthOffset = hashIndex * sketchWidth
\* (the lanes of Items are small: the sum does not reach 2^64)
CounterIndex(sketchWidth, hashValueArray, hashIndex) ==
    LET hashValue == hashValueArray[1] + (hashIndex * hashValueArray[2])
        widthIndex == hashValue % sketchWidth
        depthOffset == hashIndex * sketchWidth
    IN  depthOffset + widthIndex

\* the cells of an item in a sketch of the given geometry
CellsOf(sketchDepth, sketchWidth, item) ==
    { CounterIndex(sketchWidth, MurmurHash3_x64_128(item), hashIndex) :
        hashIndex \in 0..(sketchDepth - 1) }

---------------------------------------------------------------------------
(* src/cms.c: plain count-min sketch *)

\* _createCms: palloc0 gives an all-zero matrix
_createCms(sketchDepth, sketchWidth) ==
    [ sketchDepth |-> sketchDepth,
      sketchWidth |-> sketchWidth,
      sketch      |-> [k \in 0..(sketchDepth * sketchWidth - 1) |-> 0] ]

\* the for loop of _cmsEstimateHashedItemFrequency from row hashIndex on
RECURSIVE EstimateLoop(_, _, _, _)
EstimateLoop(c, hashValueArray, hashIndex, minFrequency) ==
    IF hashIndex < c.sketchDepth
    THEN LET counterIndex == CounterIndex(c.sketchWidth, hashValueArray, hashIndex)
             counterFrequency == c.sketch[counterIndex]
         IN  EstimateLoop(c, hashValueArray, hashIndex + 1,
                          IF counterFrequency < minFrequency
                          THEN counterFrequency ELSE minFrequency)
    ELSE minFrequency

_cmsEstimateHashedItemFrequency(c, hashValueArray) ==
    EstimateLoop(c, hashValueArray, 0, UINT64_MAX)

_cmsEstimateItemFrequency(c, item) ==
    _cmsEstimateHashedItemFrequency(c, MurmurHash3_x64_128(item))

\* the for loop of _updateCmsInPlace from row hashIndex on: the matrix after it
RECURSIVE UpdateLoop(_, _, _, _, _)
UpdateLoop(sketch, c, hashValueArray, hashIndex, newFrequency) ==
    IF hashIndex < c.sketchDepth
    THEN LET counterIndex == CounterIndex(c.sketchWidth, hashValueArray, hashIndex)
             counterFrequency == sketch[counterIndex]
         IN  UpdateLoop(IF newFrequency > counterFrequency
                        THEN [sketch EXCEPT ![counterIndex] = newFrequency]
                        ELSE sketch,
                        c, hashValueArray, hashIndex + 1, newFrequency)
    ELSE sketch

\* a sketch update that adds one to every indexed counter
IncrementAllCmsInPlace(c, newItem) ==
    LET hashValueArray == MurmurHash3_x64_128(newItem)
        minFrequency == _cmsEstimateHashedItemFrequency(c, hashValueArray)
        cells == CellsOf(c.sketchDepth, c.sketchWidth, newItem)
    IN  [ cms |-> [c EXCEPT !.sketch =
                     [k \in DOMAIN c.sketch |->
                        IF k \in cells THEN c.sketch[k] + 1 ELSE c.sketch[k]]],
          newFrequency |-> minFrequency + 1 ]

\* a sketch update that stores the new frequency in every indexed counter
OverwriteCmsInPlace(c, newItem) ==
    LET hashValueArray == MurmurHash3_x64_128(newItem)
        minFrequency == _cmsEstimateHashedItemFrequency(c, hashValueArray)
        cells == CellsOf(c.sketchDepth, c.sketchWidth, newItem)
    IN  [ cms |-> [c EXCEPT !.sketch =
                     [k \in DOMAIN c.sketch |->
                        IF k \in cells THEN minFrequency + 1 ELSE c.sketch[k]]],
          newFrequency |-> minFrequency + 1 ]

\* a sketch update that returns the old estimate
StaleReturnCmsInPlace(c, newItem) ==
    LET hashValueArray == MurmurHash3_x64_128(newItem)
        minFrequency == _cmsEstimateHashedItemFrequency(c, hashValueArray)
    IN  [ cms |-> [c EXCEPT !.sketch =
                     UpdateLoop(c.sketch, c, hashValueArray, 0, minFrequency + 1)],
          newFrequency |-> minFrequency ]

\* a sketch update whose loop stops after the first row
FirstRowOnlyCmsInPlace(c, newItem) ==
    LET hashValueArray == MurmurHash3_x64_128(newItem)
        minFrequency == _cmsEstimateHashedItemFrequency(c, hashValueArray)
        newFrequency == minFrequency + 1
        counterIndex == CounterIndex(c.sketchWidth, hashValueArray, 0)
    IN  [ cms |-> [c EXCEPT !.sketch =
                     IF newFrequency > c.sketch[counterIndex]
                     THEN [c.sketch EXCEPT ![counterIndex] = newFrequency]
                     ELSE c.sketch],
          newFrequency |-> newFrequency ]

\* a sketch update that counts the old estimate of the item twice
DoubleCountCmsInPlace(c, newItem) ==
    LET hashValueArray == MurmurHash3_x64_128(newItem)
        minFrequency == _cmsEstimateHashedItemFrequency(c, hashValueArray)
        newFrequency == minFrequency + minFrequency + 1
    IN  [ cms |-> [c EXCEPT !.sketch =
                     UpdateLoop(c.sketch, c, hashValueArray, 0, newFrequency)],
          newFrequency |-> newFrequency ]

\* _updateCmsInPlace: the sketch after the update and the returned frequency
_updateCmsInPlace(c, newItem) ==
    LET hashValueArray == MurmurHash3_x64_128(newItem)
        minFrequency == _cmsEstimateHashedItemFrequency(c, hashValueArray)
        newFrequency == minFrequency + 1
    IN  [ cms |-> [c EXCEPT !.sketch =
                     UpdateLoop(c.sketch, c, hashValueArray, 0, newFrequency)],
          newFrequency |-> newFrequency ]

\* _updateCms: detoasts the item, updates in place, returns the same sketch
_updateCms(currentCms, newItem) ==
    _updateCmsInPlace(currentCms, newItem)

RECURSIVE SumOver(_, _)
SumOver(f, S) ==
    IF S = {} THEN 0
    ELSE LET e == CHOOSE e \in S : TRUE IN f[e] + SumOver(f, S \ {e})

\* cms_add(cms, item) with both arguments non-null
cms_add(newItem) ==
    /\ SumOver(trueFrequency, Items) < MaxCmsAdds
    /\ LET updated == _updateCms(cms, newItem)
       IN  /\ cms' = updated.cms
           /\ trueFrequency' = [trueFrequency EXCEPT ![newItem] = @ + 1]
           /\ cmsLast' = [ op |-> "cms_add", item |-> newItem,
                           before |-> cms.sketch,
                           result |-> updated.newFrequency ]
    /\ UNCHANGED topnVars
    /\ UNCHANGED mmsVars
    /\ UNCHANGED createLast
    /\ UNCHANGED wide
    /\ UNCHANGED storage
    /\ UNCHANGED agg

---------------------------------------------------------------------------
(* src/cms_topn.c: count-min sketch with a top-n array *)

\* CreateCmsTopn: all-zero matrix, no top-n array stored yet
CreateCmsTopn(topnItemCount, sketchDepth, sketchWidth) ==
    [ sketchDepth |-> sketchDepth,
      sketchWidth |-> sketchWidth,
      topnItemCount |-> topnItemCount,
      minFrequencyOfTopnItems |-> MAX_FREQUENCY,
      sketch |-> [k \in 0..(sketchDepth * sketchWidth - 1) |-> 0],
      topnArray |-> <<>>,
      elemtype |-> InvalidOid ]

\* TopnArraySize: 0 for a missing or zero-dimensional array
TopnArraySize(topnArray) == Len(topnArray)

\* the for loop of CmsTopnEstimateHashedItemFrequency from row hashIndex on
RECURSIVE CmsTopnEstimateLoop(_, _, _, _)
CmsTopnEstimateLoop(cmsTopn, hashValueArray, hashIndex, minFrequency) ==
    IF hashIndex < cmsTopn.sketchDepth
    THEN LET hashOffset == hashIndex * cmsTopn.sketchWidth
             hashValue == hashValueArray[1] + (hashIndex * hashValueArray[2])
             counterIndex == hashValue % cmsTopn.sketchWidth
             counterFrequency == cmsTopn.sketch[hashOffset + counterIndex]
         IN  CmsTopnEstimateLoop(cmsTopn, hashValueArray, hashIndex + 1,
                                 Min(minFrequency, counterFrequency))
    ELSE minFrequency

CmsTopnEstimateHashedItemFrequency(cmsTopn, hashValueArray) ==
    CmsTopnEstimateLoop(cmsTopn, hashValueArray, 0, MAX_FREQUENCY)

CmsTopnEstimateItemFrequency(cmsTopn, item) ==
    CmsTopnEstimateHashedItemFrequency(cmsTopn, MurmurHash3_x64_128(item))

\* the for loop of UpdateCountMinSketch from row hashIndex on
RECURSIVE UpdateCountMinSketchLoop(_, _, _, _, _)
UpdateCountMinSketchLoop(sketch, cmsTopn, hashValueArray, hashIndex, newFrequency) ==
    IF hashIndex < cmsTopn.sketchDepth
    THEN LET hashOffset == hashIndex * cmsTopn.sketchWidth
             hashValue == hashValueArray[1] + (hashIndex * hashValueArray[2])
             counterIndex == hashValue % cmsTopn.sketchWidth
             counterFrequency == sketch[hashOffset + counterIndex]
         IN  UpdateCountMinSketchLoop(
                 [sketch EXCEPT ![hashOffset + counterIndex] =
                                    Max(counterFrequency, newFrequency)],
                 cmsTopn, hashValueArray, hashIndex + 1, newFrequency)
    ELSE sketch

\* an UpdateCountMinSketch that leaves the matrix alone when the array is full
\* and the new frequency does not exceed the threshold of the tracked items
UpdateCountMinSketchOfTracked(cmsTopn, newItem) ==
    LET hashValueArray == MurmurHash3_x64_128(newItem)
        minFrequency == CmsTopnEstimateHashedItemFrequency(cmsTopn, hashValueArray)
        newFrequency == minFrequency + 1
    IN  IF /\ Len(cmsTopn.topnArray) = cmsTopn.topnItemCount
           /\ newFrequency <= cmsTopn.minFrequencyOfTopnItems
        THEN [ cms |-> cmsTopn, newFrequency |-> newFrequency ]
        ELSE [ cms |-> [cmsTopn EXCEPT !.sketch =
                          UpdateCountMinSketchLoop(cmsTopn.sketch, cmsTopn,
                                                   hashValueArray, 0, newFrequency)],
               newFrequency |-> newFrequency ]

\* UpdateCountMinSketch: the sketch after the update and the returned frequency
UpdateCountMinSketch(cmsTopn, newItem) ==
    LET hashValueArray == MurmurHash3_x64_128(newItem)
        minFrequency == CmsTopnEstimateHashedItemFrequency(cmsTopn, hashValueArray)
        newFrequency == minFrequency + 1
    IN  [ cms |-> [cmsTopn EXCEPT !.sketch =
                     UpdateCountMinSketchLoop(cmsTopn.sketch, cmsTopn,
                                              hashValueArray, 0, newFrequency)],
          newFrequency |-> newFrequency ]

\* array_set(array, 1, &index, value, ...) on a one-dimensional array with
\* lower bound 1: index in 1..Len replaces, Len + 1 appends; an index below
\* the lower bound extends the array downwards, the gap filled with NULLs
array_set(array, index, value) ==
    IF index >= 1 /\ index <= Len(array)
    THEN [array EXCEPT ![index] = value]
    ELSE IF index = Len(array) + 1
    THEN Append(array, value)
    ELSE IF index > Len(array)
    THEN array \o [k \in 1..(index - Len(array) - 1) |-> "NULL"] \o <<value>>
    ELSE <<value>> \o [k \in 1..(0 - index) |-> "NULL"] \o array

\* a scan that moves to a later element of the same frequency
RECURSIVE UpdateTopnArrayScanLastMin(_, _, _, _, _, _)
UpdateTopnArrayScanLastMin(cmsTopn, topnArray, candidateItem, topnItemIndex, minOfNewTopnItems, minIndex) ==
    IF topnItemIndex <= Len(topnArray)
    THEN LET topnItem == topnArray[topnItemIndex]
             topnItemFrequency == CmsTopnEstimateItemFrequency(cmsTopn, topnItem)
             lower == topnItemFrequency <= minOfNewTopnItems
             newMin == IF lower THEN topnItemFrequency ELSE minOfNewTopnItems
             newMinIndex == IF lower THEN topnItemIndex ELSE minIndex
         IN  IF topnItem = candidateItem
             THEN [ minOfNewTopnItems |-> newMin, minIndex |-> -1,
                    candidateAlreadyInArray |-> TRUE ]
             ELSE UpdateTopnArrayScanLastMin(cmsTopn, topnArray, candidateItem,
                                             topnItemIndex + 1, newMin, newMinIndex)
    ELSE [ minOfNewTopnItems |-> minOfNewTopnItems, minIndex |-> minIndex,
           candidateAlreadyInArray |-> FALSE ]

\* the while loop of UpdateTopnArray from element topnItemIndex on: the
\* frequency of each element is estimated first, then the element is compared
\* with the candidate
RECURSIVE UpdateTopnArrayScan(_, _, _, _, _, _)
UpdateTopnArrayScan(cmsTopn, topnArray, candidateItem, topnItemIndex, minOfNewTopnItems, minIndex) ==
    IF topnItemIndex <= Len(topnArray)
    THEN LET topnItem == topnArray[topnItemIndex]
             topnItemFrequency == CmsTopnEstimateItemFrequency(cmsTopn, topnItem)
             lower == topnItemFrequency < minOfNewTopnItems
             newMin == IF lower THEN topnItemFrequency ELSE minOfNewTopnItems
             newMinIndex == IF lower THEN topnItemIndex ELSE minIndex
         IN  IF topnItem = candidateItem
             THEN [ minOfNewTopnItems |-> newMin, minIndex |-> -1,
                    candidateAlreadyInArray |-> TRUE ]
             ELSE UpdateTopnArrayScan(cmsTopn, topnArray, candidateItem,
                                      topnItemIndex + 1, newMin, newMinIndex)
    ELSE [ minOfNewTopnItems |-> minOfNewTopnItems, minIndex |-> minIndex,
           candidateAlreadyInArray |-> FALSE ]

\* an UpdateTopnArray that does not look whether there is place in the array
UpdateTopnArrayNoRoomCheck(cmsTopn, topnArray, candidateItem, itemFrequency) ==
    LET currentArraySize == TopnArraySize(topnArray)
        low == itemFrequency <= cmsTopn.minFrequencyOfTopnItems
        scan == UpdateTopnArrayScan(cmsTopn, topnArray, candidateItem, 1,
                                    MAX_FREQUENCY, 1)
        candidateAlreadyInArray ==
            IF low THEN FALSE ELSE scan.candidateAlreadyInArray
        minOfNewTopnItems ==
            IF low THEN itemFrequency
            ELSE (IF ~scan.candidateAlreadyInArray
                  THEN Min(scan.minOfNewTopnItems, itemFrequency)
                  ELSE scan.minOfNewTopnItems)
        itemIndex ==
            IF low THEN currentArraySize + 1
            ELSE (IF ~scan.candidateAlreadyInArray
                  THEN currentArraySize + 1
                  ELSE scan.minIndex)
    IN  IF ~candidateAlreadyInArray /\ minOfNewTopnItems <= itemFrequency
        THEN [ topnArray |-> array_set(topnArray, itemIndex, candidateItem),
               minFrequencyOfTopnItems |-> minOfNewTopnItems,
               updated |-> TRUE ]
        ELSE [ topnArray |-> topnArray,
               minFrequencyOfTopnItems |-> cmsTopn.minFrequencyOfTopnItems,
               updated |-> FALSE ]

\* an UpdateTopnArray that stores the candidate's frequency as the threshold
UpdateTopnArrayCandidateThreshold(cmsTopn, topnArray, candidateItem, itemFrequency) ==
    LET currentArraySize == TopnArraySize(topnArray)
        low == itemFrequency <= cmsTopn.minFrequencyOfTopnItems
        room == currentArraySize < cmsTopn.topnItemCount
        scan == UpdateTopnArrayScan(cmsTopn, topnArray, candidateItem, 1,
                                    MAX_FREQUENCY, 1)
        candidateAlreadyInArray ==
            IF low THEN FALSE ELSE scan.candidateAlreadyInArray
        minOfNewTopnItems ==
            IF low
            THEN (IF room THEN itemFrequency ELSE MAX_FREQUENCY)
            ELSE (IF ~scan.candidateAlreadyInArray /\ room
                  THEN Min(scan.minOfNewTopnItems, itemFrequency)
                  ELSE scan.minOfNewTopnItems)
        itemIndex ==
            IF low
            THEN (IF room THEN currentArraySize + 1 ELSE -1)
            ELSE (IF ~scan.candidateAlreadyInArray /\ room
                  THEN currentArraySize + 1
                  ELSE scan.minIndex)
    IN  IF ~candidateAlreadyInArray /\ minOfNewTopnItems <= itemFrequency
        THEN [ topnArray |-> array_set(topnArray, itemIndex, candidateItem),
               minFrequencyOfTopnItems |-> itemFrequency,
               updated |-> TRUE ]
        ELSE [ topnArray |-> topnArray,
               minFrequencyOfTopnItems |-> cmsTopn.minFrequencyOfTopnItems,
               updated |-> FALSE ]

\* an UpdateTopnArray that drops a candidate whose frequency is not above the
\* threshold even when the array has room
UpdateTopnArrayDropsLow(cmsTopn, topnArray, candidateItem, itemFrequency) ==
    LET currentArraySize == TopnArraySize(topnArray)
        low == itemFrequency <= cmsTopn.minFrequencyOfTopnItems
        room == currentArraySize < cmsTopn.topnItemCount
        scan == UpdateTopnArrayScan(cmsTopn, topnArray, candidateItem, 1,
                                    MAX_FREQUENCY, 1)
        minOfNewTopnItems ==
            IF ~scan.candidateAlreadyInArray /\ room
            THEN Min(scan.minOfNewTopnItems, itemFrequency)
            ELSE scan.minOfNewTopnItems
        itemIndex ==
            IF ~scan.candidateAlreadyInArray /\ room
            THEN currentArraySize + 1
            ELSE scan.minIndex
    IN  IF ~low /\ ~scan.candidateAlreadyInArray /\ minOfNewTopnItems <= itemFrequency
        THEN [ topnArray |-> array_set(topnArray, itemIndex, candidateItem),
               minFrequencyOfTopnItems |-> minOfNewTopnItems,
               updated |-> TRUE ]
        ELSE [ topnArray |-> topnArray,
               minFrequencyOfTopnItems |-> cmsTopn.minFrequencyOfTopnItems,
               updated |-> FALSE ]

\* UpdateTopnArray: the array it returns, the threshold it leaves in the
\* sketch, and whether the returned array is a new one
UpdateTopnArray(cmsTopn, topnArray, candidateItem, itemFrequency) ==
    LET currentArraySize == TopnArraySize(topnArray)
        low == itemFrequency <= cmsTopn.minFrequencyOfTopnItems
        room == currentArraySize < cmsTopn.topnItemCount
        scan == UpdateTopnArrayScan(cmsTopn, topnArray, candidateItem, 1,
                                    MAX_FREQUENCY, 1)
        candidateAlreadyInArray ==
            IF low THEN FALSE ELSE scan.candidateAlreadyInArray
        minOfNewTopnItems ==
            IF low
            THEN (IF room THEN itemFrequency ELSE MAX_FREQUENCY)
            ELSE (IF ~scan.candidateAlreadyInArray /\ room
                  THEN Min(scan.minOfNewTopnItems, itemFrequency)
                  ELSE scan.minOfNewTopnItems)
        itemIndex ==
            IF low
            THEN (IF room THEN currentArraySize + 1 ELSE -1)
            ELSE (IF ~scan.candidateAlreadyInArray /\ room
                  THEN currentArraySize + 1
                  ELSE scan.minIndex)
    IN  IF ~candidateAlreadyInArray /\ minOfNewTopnItems <= itemFrequency
        THEN [ topnArray |-> array_set(topnArray, itemIndex, candidateItem),
               minFrequencyOfTopnItems |-> minOfNewTopnItems,
               updated |-> TRUE ]
        ELSE [ topnArray |-> topnArray,
               minFrequencyOfTopnItems |-> cmsTopn.minFrequencyOfTopnItems,
               updated |-> FALSE ]

\* FormCmsTopn: a new CmsTopn holding the sketch and the new top-n array
FormCmsTopn(cmsTopn, newTopn) ==
    [cmsTopn EXCEPT !.topnArray = newTopn]

\* CmsTopnAddItem followed by FormCmsTopn, as cms_topn_add runs them: the new
\* sketch, the returned frequency and the call of UpdateTopnArray made.  A
\* sketch without an array (TopnArray returns NULL: elemtype is InvalidOid) is
\* given construct_empty_array(newItemType); FormCmsTopn stores the array,
\* empty or not, and with it the element type.
CmsTopnAddItem(cmsTopn, newItem) ==
    LET counted == UpdateCountMinSketch(cmsTopn, newItem)
        offered == UpdateTopnArray(counted.cms, cmsTopn.topnArray, newItem,
                                   counted.newFrequency)
    IN  [ cms |-> FormCmsTopn(
                     [counted.cms EXCEPT !.minFrequencyOfTopnItems =
                                             offered.minFrequencyOfTopnItems,
                                         !.elemtype =
                                             IF cmsTopn.elemtype = InvalidOid
                                             THEN TypeOf(newItem) ELSE @],
                     offered.topnArray),
          newFrequency |-> counted.newFrequency,
          offers |-> << [ candidate |-> newItem,
                          frequency |-> counted.newFrequency,
                          before |-> cmsTopn.topnArray,
                          thresholdBefore |-> cmsTopn.minFrequencyOfTopnItems,
                          after |-> offered.topnArray,
                          thresholdAfter |-> offered.minFrequencyOfTopnItems,
                          updated |-> offered.updated ] >> ]

\* a cms_topn_add that does not compare the item's type with the array's
CmsTopnAddNoTypeCheck(cmsTopn, newItem) ==
    LET added == CmsTopnAddItem(cmsTopn, newItem)
    IN  [ error |-> "", cms |-> added.cms,
          newFrequency |-> added.newFrequency,
          offers |-> added.offers ]

\* the body of cms_topn_add for a non-null sketch and item: the error it
\* raises, or the sketch it returns
CmsTopnAdd(cmsTopn, newItem) ==
    LET newItemType == TypeOf(newItem)
    IN  IF cmsTopn.elemtype # InvalidOid /\ newItemType # cmsTopn.elemtype
        THEN [ error |-> "not proper type for this cms_topn",
               cms |-> cmsTopn, newFrequency |-> 0, offers |-> <<>> ]
        ELSE LET added == CmsTopnAddItem(cmsTopn, newItem)
             IN  [ error |-> "", cms |-> added.cms,
                   newFrequency |-> added.newFrequency,
                   offers |-> added.offers ]

\* the loop of CmsTopnUnion over the top-n array of the second sketch from
\* element topnItemIndex on; firstCmsTopn holds the summed matrix and the
\* threshold left by the calls so far, newTopnArray the array they built
RECURSIVE CmsTopnUnionLoop(_, _, _, _, _)
CmsTopnUnionLoop(firstCmsTopn, newTopnArray, secondTopnArray, topnItemIndex, offers) ==
    IF topnItemIndex <= Len(secondTopnArray)
    THEN LET topnItem == secondTopnArray[topnItemIndex]
             newItemFrequency == CmsTopnEstimateItemFrequency(firstCmsTopn, topnItem)
             offered == UpdateTopnArray(firstCmsTopn, newTopnArray, topnItem,
                                        newItemFrequency)
         IN  CmsTopnUnionLoop(
                 [firstCmsTopn EXCEPT !.minFrequencyOfTopnItems =
                                          offered.minFrequencyOfTopnItems],
                 offered.topnArray, secondTopnArray, topnItemIndex + 1,
                 Append(offers,
                        [ candidate |-> topnItem,
                          frequency |-> newItemFrequency,
                          before |-> newTopnArray,
                          thresholdBefore |-> firstCmsTopn.minFrequencyOfTopnItems,
                          after |-> offered.topnArray,
                          thresholdAfter |-> offered.minFrequencyOfTopnItems,
                          updated |-> offered.updated ]))
    ELSE [ cms |-> FormCmsTopn(firstCmsTopn, newTopnArray), offers |-> offers ]

\* a CmsTopnUnion that keeps the larger of the two counters of each cell
CmsTopnUnionMax(firstCmsTopn, secondCmsTopn) ==
    LET larger == [firstCmsTopn EXCEPT !.sketch =
                     [k \in DOMAIN firstCmsTopn.sketch |->
                        Max(firstCmsTopn.sketch[k], secondCmsTopn.sketch[k])]]
    IN  CmsTopnUnionLoop(larger, firstCmsTopn.topnArray,
                         secondCmsTopn.topnArray, 1, <<>>)

\* CmsTopnUnion followed by FormCmsTopn: sums the second matrix into the first
\* one, then offers the top-n items of the second sketch
CmsTopnUnion(firstCmsTopn, secondCmsTopn) ==
    LET summed == [firstCmsTopn EXCEPT !.sketch =
                     [k \in DOMAIN firstCmsTopn.sketch |->
                        firstCmsTopn.sketch[k] + secondCmsTopn.sketch[k]]]
    IN  CmsTopnUnionLoop(summed, firstCmsTopn.topnArray,
                         secondCmsTopn.topnArray, 1, <<>>)

\* a cms_topn_union that returns the first sketch when its array is empty
CmsTopnUnionResultKeepFirst(firstCmsTopn, secondCmsTopn) ==
    IF \/ firstCmsTopn.sketchDepth # secondCmsTopn.sketchDepth
       \/ firstCmsTopn.sketchWidth # secondCmsTopn.sketchWidth
       \/ firstCmsTopn.topnItemCount # secondCmsTopn.topnItemCount
    THEN [ error |-> "cannot merge cms_topns with different parameters",
           cms |-> firstCmsTopn, offers |-> <<>> ]
    ELSE IF TopnArraySize(firstCmsTopn.topnArray) = 0
    THEN [ error |-> "", cms |-> firstCmsTopn, offers |-> <<>> ]
    ELSE IF TopnArraySize(secondCmsTopn.topnArray) = 0
    THEN [ error |-> "", cms |-> firstCmsTopn, offers |-> <<>> ]
    ELSE IF firstCmsTopn.elemtype # secondCmsTopn.elemtype
    THEN [ error |-> "cannot merge cms_topns of different types",
           cms |-> firstCmsTopn, offers |-> <<>> ]
    ELSE LET united == CmsTopnUnion(firstCmsTopn, secondCmsTopn)
         IN  [ error |-> "", cms |-> united.cms, offers |-> united.offers ]

\* a cms_topn_union that compares depth and width but not the capacity
CmsTopnUnionResultNoCapacityCheck(firstCmsTopn, secondCmsTopn) ==
    IF \/ firstCmsTopn.sketchDepth # secondCmsTopn.sketchDepth
       \/ firstCmsTopn.sketchWidth # secondCmsTopn.sketchWidth
    THEN [ error |-> "cannot merge cms_topns with different parameters",
           cms |-> firstCmsTopn, offers |-> <<>> ]
    ELSE IF TopnArraySize(firstCmsTopn.topnArray) = 0
    THEN [ error |-> "", cms |-> secondCmsTopn, offers |-> <<>> ]
    ELSE IF TopnArraySize(secondCmsTopn.topnArray) = 0
    THEN [ error |-> "", cms |-> firstCmsTopn, offers |-> <<>> ]
    ELSE IF firstCmsTopn.elemtype # secondCmsTopn.elemtype
    THEN [ error |-> "cannot merge cms_topns of different types",
           cms |-> firstCmsTopn, offers |-> <<>> ]
    ELSE LET united == CmsTopnUnion(firstCmsTopn, secondCmsTopn)
         IN  [ error |-> "", cms |-> united.cms, offers |-> united.offers ]

\* the body of cms_topn_union for two non-null sketches: the error it raises,
\* or the sketch it returns
CmsTopnUnionResult(firstCmsTopn, secondCmsTopn) ==
    IF \/ firstCmsTopn.sketchDepth # secondCmsTopn.sketchDepth
       \/ firstCmsTopn.sketchWidth # secondCmsTopn.sketchWidth
       \/ firstCmsTopn.topnItemCount # secondCmsTopn.topnItemCount
    THEN [ error |-> "cannot merge cms_topns with different parameters",
           cms |-> firstCmsTopn, offers |-> <<>> ]
    ELSE IF TopnArraySize(firstCmsTopn.topnArray) = 0
    THEN [ error |-> "", cms |-> secondCmsTopn, offers |-> <<>> ]
    ELSE IF TopnArraySize(secondCmsTopn.topnArray) = 0
    THEN [ error |-> "", cms |-> firstCmsTopn, offers |-> <<>> ]
    ELSE IF firstCmsTopn.elemtype # secondCmsTopn.elemtype
    THEN [ error |-> "cannot merge cms_topns of different types",
           cms |-> firstCmsTopn, offers |-> <<>> ]
    ELSE LET united == CmsTopnUnion(firstCmsTopn, secondCmsTopn)
         IN  [ error |-> "", cms |-> united.cms, offers |-> united.offers ]

\* the inner for loop of topn from element j on: the index of the first
\* element after topnIndex with the largest frequency, else topnIndex
RECURSIVE OrderedTopnMaxIndex(_, _, _, _)
OrderedTopnMaxIndex(orderedTopn, j, max, maxIndex) ==
    IF j <= Len(orderedTopn)
    THEN IF orderedTopn[j].frequency > max
         THEN OrderedTopnMaxIndex(orderedTopn, j + 1, orderedTopn[j].frequency, j)
         ELSE OrderedTopnMaxIndex(orderedTopn, j + 1, max, maxIndex)
    ELSE maxIndex

\* the outer for loop of topn from element topnIndex on: swaps the largest
\* remaining element into place
RECURSIVE OrderedTopnSort(_, _)
OrderedTopnSort(orderedTopn, topnIndex) ==
    IF topnIndex <= Len(orderedTopn)
    THEN LET maxIndex == OrderedTopnMaxIndex(orderedTopn, topnIndex + 1,
                                             orderedTopn[topnIndex].frequency,
                                             topnIndex)
             tmp == orderedTopn[maxIndex]
         IN  OrderedTopnSort([orderedTopn EXCEPT ![maxIndex] = orderedTopn[topnIndex],
                                                 ![topnIndex] = tmp],
                             topnIndex + 1)
    ELSE orderedTopn

\* a topn that returns the items in the order of the top-n array
TopnRowsUnsorted(cmsTopn) ==
    IF cmsTopn.topnArray = <<>>
    THEN [ error |-> "there is not any items in the cms_topn", rows |-> <<>> ]
    ELSE [ error |-> "",
           rows |-> [k \in 1..Len(cmsTopn.topnArray) |->
                       [ item |-> cmsTopn.topnArray[k],
                         frequency |-> CmsTopnEstimateItemFrequency(
                                           cmsTopn, cmsTopn.topnArray[k]) ]] ]

\* the first call of topn on a non-null sketch and the rows the later calls
\* return: an error when no array is stored (a stored array is never empty),
\* else the items of the array with their estimates, sorted
TopnRows(cmsTopn) ==
    IF cmsTopn.topnArray = <<>>
    THEN [ error |-> "there is not any items in the cms_topn", rows |-> <<>> ]
    ELSE [ error |-> "",
           rows |-> OrderedTopnSort(
                       [k \in 1..Len(cmsTopn.topnArray) |->
                          [ item |-> cmsTopn.topnArray[k],
                            frequency |-> CmsTopnEstimateItemFrequency(
                                              cmsTopn, cmsTopn.topnArray[k]) ]],
                       1) ]

---------------------------------------------------------------------------
(* src/cms_mms.c: count-min sketch with a top-n array.  Its                *)
(* _updateCmsInPlace, _cmsEstimateHashedItemFrequency and                  *)
(* _cmsEstimateItemFrequency (lines 876-983, 1108-1134) are the text of    *)
(* src/cms.c's, which the definitions above model.                         *)

\* _createCms of cms_mms.c: all-zero matrix, an empty top-n array, threshold 0
_createCmsTopn(topnItemCount, sketchDepth, sketchWidth) ==
    [ sketchDepth |-> sketchDepth,
      sketchWidth |-> sketchWidth,
      topnItemCount |-> topnItemCount,
      minFrequencyOfTopnItems |-> 0,
      sketch |-> [k \in 0..(sketchDepth * sketchWidth - 1) |-> 0],
      topnArray |-> <<>>,
      elemtype |-> InvalidOid ]

\* the while loop of _updateTopnArray from element topnItemIndex on: each
\* element is compared with the candidate first, then its frequency estimated
RECURSIVE _updateTopnArrayScan(_, _, _, _, _)
_updateTopnArrayScan(c, candidateItem, topnItemIndex, minOfNewTopnItems, minItemIndex) ==
    IF topnItemIndex <= Len(c.topnArray)
    THEN LET topnItem == c.topnArray[topnItemIndex]
         IN  IF topnItem = candidateItem
             THEN [ minOfNewTopnItems |-> minOfNewTopnItems, minItemIndex |-> -1,
                    candidateAlreadyInArray |-> TRUE ]
             ELSE LET topnItemFrequency == _cmsEstimateItemFrequency(c, topnItem)
                      lower == topnItemFrequency < minOfNewTopnItems
                  IN  _updateTopnArrayScan(
                          c, candidateItem, topnItemIndex + 1,
                          IF lower THEN topnItemFrequency ELSE minOfNewTopnItems,
                          IF lower THEN topnItemIndex ELSE minItemIndex)
    ELSE [ minOfNewTopnItems |-> minOfNewTopnItems, minItemIndex |-> minItemIndex,
           candidateAlreadyInArray |-> FALSE ]

\* _updateTopnArray: the array it returns, the threshold it leaves in the
\* sketch, and *topnArrayUpdated
_updateTopnArray(c, candidateItem, itemFrequency) ==
    LET currentTopnArray == c.topnArray
        currentArrayLength == Len(currentTopnArray)
        low == itemFrequency <= c.minFrequencyOfTopnItems
        room == currentArrayLength < c.topnItemCount
        scan == _updateTopnArrayScan(c, candidateItem, 1, UINT64_MAX, 1)
        candidateAlreadyInArray ==
            IF low THEN FALSE ELSE scan.candidateAlreadyInArray
        minOfNewTopnItems ==
            IF low
            THEN (IF room THEN itemFrequency ELSE UINT64_MAX)
            ELSE (IF ~scan.candidateAlreadyInArray /\ room
                  THEN Min(scan.minOfNewTopnItems, itemFrequency)
                  ELSE scan.minOfNewTopnItems)
        candidateIndex ==
            IF low
            THEN (IF room THEN currentArrayLength + 1 ELSE -1)
            ELSE (IF ~scan.candidateAlreadyInArray /\ room
                  THEN currentArrayLength + 1
                  ELSE scan.minItemIndex)
    IN  IF ~candidateAlreadyInArray /\ minOfNewTopnItems <= itemFrequency
        THEN [ topnArray |-> array_set(currentTopnArray, candidateIndex, candidateItem),
               minFrequencyOfTopnItems |-> minOfNewTopnItems,
               updated |-> TRUE ]
        ELSE [ topnArray |-> currentTopnArray,
               minFrequencyOfTopnItems |-> c.minFrequencyOfTopnItems,
               updated |-> FALSE ]

\* _formCms: the sketch with the new top-n array copied behind the matrix
_formCms(c, newTopnArray) ==
    [c EXCEPT !.topnArray = newTopnArray]

\* _updateCms of cms_mms.c: the error it raises, or the new sketch, the
\* frequency of the item and the call of _updateTopnArray made.  An empty
\* array is replaced by construct_empty_array(itemType) in _updateTopnArray.
_updateCmsTopn(currentCms, newItem) ==
    LET newItemType == TypeOf(newItem)
        currentTopnArrayLength == Len(currentCms.topnArray)
        currentItemType == currentCms.elemtype
        counted == _updateCmsInPlace(currentCms, newItem)
        offered == _updateTopnArray(counted.cms, newItem, counted.newFrequency)
        kept == [counted.cms EXCEPT !.minFrequencyOfTopnItems =
                                        offered.minFrequencyOfTopnItems]
        typed == [kept EXCEPT !.elemtype = IF currentTopnArrayLength = 0
                                           THEN newItemType ELSE @]
    IN  IF currentTopnArrayLength # 0 /\ currentItemType # newItemType
        THEN [ error |-> "not proper type for this cms",
               cms |-> currentCms, newFrequency |-> 0, offers |-> <<>> ]
        ELSE [ error |-> "",
               cms |-> IF offered.updated THEN _formCms(typed, offered.topnArray)
                       ELSE kept,
               newFrequency |-> counted.newFrequency,
               offers |-> << [ candidate |-> newItem,
                               frequency |-> counted.newFrequency,
                               before |-> currentCms.topnArray,
                               thresholdBefore |-> currentCms.minFrequencyOfTopnItems,
                               after |-> offered.topnArray,
                               thresholdAfter |-> offered.minFrequencyOfTopnItems,
                               updated |-> offered.updated ] >> ]

\* the while loop of _cmsUnion over the top-n array of the second sketch
RECURSIVE _cmsUnionLoop(_, _, _, _)
_cmsUnionLoop(newCms, secondTopnArray, topnItemIndex, offers) ==
    IF topnItemIndex <= Len(secondTopnArray)
    THEN LET topnItem == secondTopnArray[topnItemIndex]
             newItemFrequency == _cmsEstimateItemFrequency(newCms, topnItem)
             offered == _updateTopnArray(newCms, topnItem, newItemFrequency)
             kept == [newCms EXCEPT !.minFrequencyOfTopnItems =
                                        offered.minFrequencyOfTopnItems]
         IN  _cmsUnionLoop(
                 IF offered.updated THEN _formCms(kept, offered.topnArray) ELSE kept,
                 secondTopnArray, topnItemIndex + 1,
                 Append(offers,
                        [ candidate |-> topnItem,
                          frequency |-> newItemFrequency,
                          before |-> newCms.topnArray,
                          thresholdBefore |-> newCms.minFrequencyOfTopnItems,
                          after |-> offered.topnArray,
                          thresholdAfter |-> offered.minFrequencyOfTopnItems,
                          updated |-> offered.updated ]))
    ELSE [ cms |-> newCms, offers |-> offers ]

\* _cmsUnion: the error it raises, or the sketch it returns
_cmsUnion(firstCms, secondCms) ==
    IF \/ firstCms.sketchDepth # secondCms.sketchDepth
       \/ firstCms.sketchWidth # secondCms.sketchWidth
       \/ firstCms.topnItemCount # secondCms.topnItemCount
    THEN [ error |-> "cannot merge cms with different parameters",
           cms |-> firstCms, offers |-> <<>> ]
    ELSE IF Len(firstCms.topnArray) = 0
    THEN [ error |-> "", cms |-> secondCms, offers |-> <<>> ]
    ELSE IF Len(secondCms.topnArray) = 0
    THEN [ error |-> "", cms |-> firstCms, offers |-> <<>> ]
    ELSE IF firstCms.elemtype # secondCms.elemtype
    THEN [ error |-> "cannot merge cms of different types",
           cms |-> firstCms, offers |-> <<>> ]
    ELSE LET summed == [firstCms EXCEPT !.sketch =
                          [k \in DOMAIN firstCms.sketch |->
                             firstCms.sketch[k] + secondCms.sketch[k]]]
             united == _cmsUnionLoop(summed, secondCms.topnArray, 1, <<>>)
         IN  [ error |-> "", cms |-> united.cms, offers |-> united.offers ]

\* the inner for loop of _sortTopnItems from element candidateItemIndex on
RECURSIVE _sortTopnItemsMaxIndex(_, _, _, _)
_sortTopnItemsMaxIndex(topnItemArray, candidateItemIndex, maxItemFrequency, maxItemIndex) ==
    IF candidateItemIndex <= Len(topnItemArray)
    THEN LET candidateItemFrequency ==
                 topnItemArray[candidateItemIndex].frequency
         IN  IF candidateItemFrequency > maxItemFrequency
             THEN _sortTopnItemsMaxIndex(topnItemArray, candidateItemIndex + 1,
                                         candidateItemFrequency, candidateItemIndex)
             ELSE _sortTopnItemsMaxIndex(topnItemArray, candidateItemIndex + 1,
                                         maxItemFrequency, maxItemIndex)
    ELSE maxItemIndex

\* the outer for loop of _sortTopnItems from element currentItemIndex on
RECURSIVE _sortTopnItemsLoop(_, _)
_sortTopnItemsLoop(topnItemArray, currentItemIndex) ==
    IF currentItemIndex <= Len(topnItemArray)
    THEN LET maxItemIndex ==
                 _sortTopnItemsMaxIndex(topnItemArray, currentItemIndex + 1,
                                        topnItemArray[currentItemIndex].frequency,
                                        currentItemIndex)
             swapFrequentTopnItem == topnItemArray[maxItemIndex]
         IN  _sortTopnItemsLoop(
                 [topnItemArray EXCEPT
                    ![maxItemIndex] = topnItemArray[currentItemIndex],
                    ![currentItemIndex] = swapFrequentTopnItem],
                 currentItemIndex + 1)
    ELSE topnItemArray

\* _sortTopnItems: selection sort, largest frequency first
_sortTopnItems(topnItemArray) ==
    _sortTopnItemsLoop(topnItemArray, 1)

\* the first call of cms_topn of cms_mms.c on a non-null sketch and the rows
\* the later calls return: no row for an empty array
SortedTopnArray(c) ==
    [ error |-> "",
      rows |-> _sortTopnItems(
                  [k \in 1..Len(c.topnArray) |->
                     [ item |-> c.topnArray[k],
                       frequency |-> _cmsEstimateItemFrequency(c, c.topnArray[k]) ]]) ]

---------------------------------------------------------------------------
(* Operations on the two top-n sketches *)

\* the capacities the top-n sketches are created with
TopnItemCounts == {1, 2, 3}

\* the items the top-n sketches are fed: x and w share a cell, y is alone
TopnItems == {"x", "w", "y"}

Target(which) == IF which = 1 THEN first ELSE second

\* the state change of an add on sketch "which" that returned "added"
RecordAdd(op, which, newItem, added) ==
    /\ IF which = 1
       THEN first' = added.cms /\ UNCHANGED second
       ELSE second' = added.cms /\ UNCHANGED first
    /\ IF added.error # ""
       THEN UNCHANGED <<stream1, stream2>>
       ELSE IF unions = 0
       THEN IF which = 1
            THEN stream1' = Append(stream1, newItem) /\ UNCHANGED stream2
            ELSE stream2' = Append(stream2, newItem) /\ UNCHANGED stream1
       ELSE stream1' = <<>> /\ stream2' = <<>>
    /\ topnLast' = [ op |-> op, which |-> which, item |-> newItem,
                     sketchBefore |-> Target(which).sketch,
                     arrayBefore |-> Target(which).topnArray,
                     newFrequency |-> added.newFrequency,
                     error |-> added.error, offers |-> added.offers,
                     rows |-> <<>>,
                     adds |-> topnLast.adds + 1 ]
    /\ UNCHANGED <<variant, unions>>
    /\ UNCHANGED cmsVars
    /\ UNCHANGED mmsVars
    /\ UNCHANGED createLast
    /\ UNCHANGED wide
    /\ UNCHANGED storage
    /\ UNCHANGED agg

\* cms_topn_add of cms_topn.c, sketch and item non-null
cms_topn_add(which, newItem) ==
    /\ variant = "cms_topn"
    /\ topnLast.adds < MaxAdds
    /\ RecordAdd("add", which, newItem, CmsTopnAdd(Target(which), newItem))

\* cms_add of cms_mms.c, sketch and item non-null
cms_add_topn(which, newItem) ==
    /\ variant = "cms_mms"
    /\ topnLast.adds < MaxAdds
    /\ RecordAdd("add", which, newItem, _updateCmsTopn(Target(which), newItem))

\* a union that also sums the counters of the first sketch into the second
CmsTopnUnionSecondSummed(firstCmsTopn, secondCmsTopn) ==
    IF /\ DOMAIN firstCmsTopn.sketch = DOMAIN secondCmsTopn.sketch
       /\ firstCmsTopn.topnArray # <<>>
       /\ secondCmsTopn.topnArray # <<>>
    THEN [secondCmsTopn EXCEPT !.sketch =
            [k \in DOMAIN secondCmsTopn.sketch |->
               firstCmsTopn.sketch[k] + secondCmsTopn.sketch[k]]]
    ELSE secondCmsTopn

\* the second operand after cms_topn_union and CmsTopnUnion: they read its
\* parameters, its counters and its array through secondCmsTopn and
\* secondTopnArray, and store through firstCmsTopn only
CmsTopnUnionSecond(firstCmsTopn, secondCmsTopn) ==
    secondCmsTopn

\* the second operand after cms_union and _cmsUnion: every store goes through
\* newCms, which is firstCms where anything is stored
_cmsUnionSecond(firstCms, secondCms) ==
    secondCms

\* the state change of first := union(first, second) that returned "united"
\* and left the second operand as "secondAfter"
RecordUnion(united, secondAfter) ==
    /\ first' = united.cms
    /\ second' = secondAfter
    /\ unions' = unions + 1
    /\ topnLast' = [ op |-> "union", which |-> 1, item |-> "",
                     sketchBefore |-> first.sketch,
                     arrayBefore |-> first.topnArray,
                     newFrequency |-> 0,
                     error |-> united.error, offers |-> united.offers,
                     rows |-> <<>>,
                     adds |-> topnLast.adds ]
    /\ UNCHANGED <<variant, stream1, stream2>>
    /\ UNCHANGED cmsVars
    /\ UNCHANGED mmsVars
    /\ UNCHANGED createLast
    /\ UNCHANGED wide
    /\ UNCHANGED storage
    /\ UNCHANGED agg

\* cms_topn_union of cms_topn.c on two non-null sketches
cms_topn_union ==
    /\ variant = "cms_topn"
    /\ unions < MaxUnions
    /\ RecordUnion(CmsTopnUnionResult(first, second),
                   CmsTopnUnionSecond(first, second))

\* cms_union of cms_mms.c on two non-null sketches
cms_union ==
    /\ variant = "cms_mms"
    /\ unions < MaxUnions
    /\ RecordUnion(_cmsUnion(first, second), _cmsUnionSecond(first, second))

\* the state change of a read of the top-n items of sketch "which"
RecordRows(which, returned) ==
    /\ topnLast' = [ op |-> "topn", which |-> which, item |-> "",
                     sketchBefore |-> Target(which).sketch,
                     arrayBefore |-> Target(which).topnArray,
                     newFrequency |-> 0,
                     error |-> returned.error, offers |-> <<>>,
                     rows |-> returned.rows,
                     adds |-> topnLast.adds ]
    /\ UNCHANGED <<variant, first, second, stream1, stream2, unions>>
    /\ UNCHANGED cmsVars
    /\ UNCHANGED mmsVars
    /\ UNCHANGED createLast
    /\ UNCHANGED wide
    /\ UNCHANGED storage
    /\ UNCHANGED agg

\* topn of cms_topn.c on a non-null sketch, the result type that of the array
topn(which) ==
    /\ variant = "cms_topn"
    /\ RecordRows(which, TopnRows(Target(which)))

\* cms_topn of cms_mms.c on a non-null sketch, the result type that of the
\* array
cms_topn(which) ==
    /\ variant = "cms_mms"
    /\ RecordRows(which, SortedTopnArray(Target(which)))

---------------------------------------------------------------------------
(* src/cms_mms.c: min-mask sketch.  A mask is the set of the positions of   *)
(* its set bits, bit 0 the lowest: m | n is the union, m & 1 is 0 \in m.    *)

\* the bits of a uint64 cell and mask
Uint64Bits == 64

\* the bits of a uint32: mms_add and mms_get_mask hold the mask in one
Uint32Bits == 32

\* uint64 minMask = UINT64_MAX
UINT64_MAX_Mask == 0..(Uint64Bits - 1)

\* the conversion of a 64-bit argument to uint32
Uint32(mask) == { bit \in mask : bit < Uint32Bits }

\* most mms_add calls
MaxMmsAdds == 3

\* the items mms_add is called with: x and w share the cell of row 0
MaskItems == {"x", "w", "y"}

\* the masks mms_add is called with: 0b01, 0b10 and 2^32
Masks == { {0}, {1}, {Uint32Bits} }

\* the while loop of _countSetBits after the mask was shifted right "shifted"
\* times: it runs while a bit is left (mask != 0), adds the lowest bit
\* (mask & 1) to count and shifts once more (mask >>= 1)
RECURSIVE CountSetBitsLoop(_, _, _)
CountSetBitsLoop(mask, shifted, count) ==
    IF \E bit \in mask : bit >= shifted
    THEN CountSetBitsLoop(mask, shifted + 1,
                          count + (IF shifted \in mask THEN 1 ELSE 0))
    ELSE count

_countSetBits(mask) == CountSetBitsLoop(mask, 0, 0)

\* _createMms: palloc0 gives an all-zero matrix
_createMms(sketchDepth, sketchWidth) ==
    [ sketchDepth |-> sketchDepth,
      sketchWidth |-> sketchWidth,
      sketch      |-> [k \in 0..(sketchDepth * sketchWidth - 1) |-> {}] ]

\* the for loop of _mmsEstimateHashedItemMask from row hashIndex on
RECURSIVE MaskEstimateLoop(_, _, _, _)
MaskEstimateLoop(m, hashValueArray, hashIndex, minMask) ==
    IF hashIndex < m.sketchDepth
    THEN LET counterIndex == CounterIndex(m.sketchWidth, hashValueArray, hashIndex)
             counterMask == m.sketch[counterIndex]
         IN  MaskEstimateLoop(m, hashValueArray, hashIndex + 1,
                              IF _countSetBits(counterMask) < _countSetBits(minMask)
                              THEN counterMask ELSE minMask)
    ELSE minMask

_mmsEstimateHashedItemMask(m, hashValueArray) ==
    MaskEstimateLoop(m, hashValueArray, 0, UINT64_MAX_Mask)

_mmsEstimateItemMask(m, item) ==
    _mmsEstimateHashedItemMask(m, MurmurHash3_x64_128(item))

\* the for loop of _updateMmsInPlace from row hashIndex on: the matrix after it
RECURSIVE MaskUpdateLoop(_, _, _, _, _)
MaskUpdateLoop(sketch, m, hashValueArray, hashIndex, newMask) ==
    IF hashIndex < m.sketchDepth
    THEN LET counterIndex == CounterIndex(m.sketchWidth, hashValueArray, hashIndex)
             counterMask == sketch[counterIndex]
         IN  MaskUpdateLoop(IF _countSetBits(newMask) > _countSetBits(counterMask)
                            THEN [sketch EXCEPT ![counterIndex] = newMask]
                            ELSE sketch,
                            m, hashValueArray, hashIndex + 1, newMask)
    ELSE sketch

\* a mask update that ORs the new mask into every indexed cell
OrAllMmsInPlace(m, newItem, newItemMask) ==
    LET hashValueArray == MurmurHash3_x64_128(newItem)
        minMask == _mmsEstimateHashedItemMask(m, hashValueArray)
        cells == CellsOf(m.sketchDepth, m.sketchWidth, newItem)
    IN  [ mms |-> [m EXCEPT !.sketch =
                     [k \in DOMAIN m.sketch |->
                        IF k \in cells THEN m.sketch[k] \cup newItemMask
                        ELSE m.sketch[k]]],
          newMask |-> minMask \cup newItemMask ]

\* _updateMmsInPlace: the sketch after the update and the returned mask
_updateMmsInPlace(m, newItem, newItemMask) ==
    LET hashValueArray == MurmurHash3_x64_128(newItem)
        minMask == _mmsEstimateHashedItemMask(m, hashValueArray)
        newMask == minMask \cup newItemMask
    IN  [ mms |-> [m EXCEPT !.sketch =
                     MaskUpdateLoop(m.sketch, m, hashValueArray, 0, newMask)],
          newMask |-> newMask ]

\* _updateMms: detoasts the item, updates in place, returns the same sketch
_updateMms(currentMms, newItem, newItemMask) ==
    _updateMmsInPlace(currentMms, newItem, newItemMask)

\* mms_add(mms, item, mask) with sketch and item non-null; the mask argument
\* is read into a uint32
mms_add(newItem, mask) ==
    /\ mmsLast.adds < MaxMmsAdds
    /\ LET newItemMask == Uint32(mask)
           updated == _updateMms(mms, newItem, newItemMask)
       IN  /\ mms' = updated.mms
           /\ addedMask' = [addedMask EXCEPT ![newItem] = @ \cup mask]
           /\ mmsLast' = [ op |-> "mms_add", item |-> newItem, mask |-> mask,
                           newItemMask |-> newItemMask,
                           before |-> mms.sketch, result |-> updated.newMask,
                           adds |-> mmsLast.adds + 1 ]
    /\ UNCHANGED cmsVars
    /\ UNCHANGED topnVars
    /\ UNCHANGED createLast
    /\ UNCHANGED wide
    /\ UNCHANGED storage
    /\ UNCHANGED agg

\* mms_get_mask(mms, item): the estimate is held in a uint32
mms_get_mask(item) ==
    /\ mmsLast' = [ op |-> "mms_get_mask", item |-> item, mask |-> {},
                    newItemMask |-> {},
                    before |-> mms.sketch,
                    result |-> Uint32(_mmsEstimateItemMask(mms, item)),
                    adds |-> mmsLast.adds ]
    /\ UNCHANGED <<mms, addedMask>>
    /\ UNCHANGED cmsVars
    /\ UNCHANGED topnVars
    /\ UNCHANGED createLast
    /\ UNCHANGED wide
    /\ UNCHANGED storage
    /\ UNCHANGED agg

---------------------------------------------------------------------------
(* The functions that return the estimate of an item to the caller *)

\* PG_RETURN_INT32(frequency): the low 32 bits of the uint64 as a signed
\* number.  The counters of the model are below 2^31 and unchanged by it;
\* UINT64_MAX, all bits set, becomes -1.
Int32(frequency) == IF frequency = UINT64_MAX THEN -1 ELSE frequency

\* cms_get_frequency of cms.c
CmsGetFrequency(c, item) ==
    [ error |-> "", frequency |-> Int32(_cmsEstimateItemFrequency(c, item)) ]

\* cms_topn_frequency of cms_topn.c: the type of the item is compared with
\* the element type of the top-n array if the sketch stores one
CmsTopnFrequency(cmsTopn, item) ==
    LET itemType == TypeOf(item)
    IN  IF cmsTopn.elemtype # InvalidOid /\ itemType # cmsTopn.elemtype
        THEN [ error |-> "Not proper type for this cms_topn", frequency |-> 0 ]
        ELSE [ error |-> "",
               frequency |-> Int32(CmsTopnEstimateItemFrequency(cmsTopn, item)) ]

\* cms_get_frequency of cms_mms.c: _topnArray never returns NULL, so the type
\* of the item is always compared with the element type read from the
\* array area, which is zero (InvalidOid) while no array was stored
CmsMmsGetFrequency(c, item) ==
    LET itemType == TypeOf(item)
    IN  IF itemType # c.elemtype
        THEN [ error |-> "Not proper type for this cms", frequency |-> 0 ]
        ELSE [ error |-> "",
               frequency |-> Int32(_cmsEstimateItemFrequency(c, item)) ]

\* mms_get_mask of cms_mms.c: the estimate is held in a uint32
MmsGetMask(m, item) ==
    [ error |-> "", mask |-> Uint32(_mmsEstimateItemMask(m, item)) ]

---------------------------------------------------------------------------
(* Creation of the sketches from an error bound and a confidence interval *)

\* most calls of a creating function
MaxCreates == 1

\* The float8 values the creating functions are called with, written as
\* their decimal text.  1e-17 is positive and below 2^-53, so that in
\* double arithmetic 1 - 1e-17 is 1.
ErrorBounds == {"-0.5", "0", "0.7", "0.95", "1", "1.5"}

ConfidenceIntervals == {"-0.5", "0", "1e-17", "0.5", "0.8", "1", "1.5"}

\* the int32 values of the number of top-n items
TopnItemCountArguments == {-1, 0, 1, 2}

\* value <= 0 and value >= 1 on these float8 values
Float8LessOrEqualZero(value) == value \in {"-0.5", "0"}

Float8GreaterOrEqualOne(value) == value \in {"1", "1.5"}

\* sketchWidth = (uint32) ceil(exp(1) / errorBound) in double arithmetic:
\*   2.71828... / 0.7 = 3.88...   2.71828... / 0.95 = 2.86...
\*   2.71828... / 0.001 = 2718.28...
SketchWidthFor(errorBound) ==
    CASE errorBound = "0.7" -> 4
      [] errorBound = "0.95" -> 3
      [] errorBound = "0.001" -> 2719

\* sketchDepth = (uint32) ceil(log(1 / (1 - confidenceInterval))) in double
\* arithmetic:
\*   1 - 1e-17 = 1, log(1 / 1) = 0;   log(1 / 0.5) = 0.69...;
\*   log(1 / (1 - 0.8)) = 1.60...;   log(1 / (1 - 0.99)) = 4.60...
SketchDepthFor(confidenceInterval) ==
    CASE confidenceInterval = "1e-17" -> 0
      [] confidenceInterval = "0.5" -> 1
      [] confidenceInterval = "0.8" -> 2
      [] confidenceInterval = "0.99" -> 5

\* the checks of the error bound and the confidence interval that _createCms
\* of cms.c, CreateCmsTopn, _createCms of cms_mms.c and _createMms make in
\* this order: the hint of the error raised, or ""
ParameterError(errorBound, confidenceInterval) ==
    IF Float8LessOrEqualZero(errorBound) \/ Float8GreaterOrEqualOne(errorBound)
    THEN "Error bound has to be between 0 and 1"
    ELSE IF \/ Float8LessOrEqualZero(confidenceInterval)
            \/ Float8GreaterOrEqualOne(confidenceInterval)
    THEN "Confidence interval has to be between 0 and 1"
    ELSE ""

\* the check of the number of top-n items that CreateCmsTopn and _createCms
\* of cms_mms.c make first
TopnParameterError(topnItemCount, errorBound, confidenceInterval) ==
    IF topnItemCount <= 0
    THEN "Number of top items has to be positive"
    ELSE ParameterError(errorBound, confidenceInterval)

\* the state change of a call of a creating function
RecordCreate(op, which, topnItemCount, errorBound, confidenceInterval, error) ==
    /\ createLast' = [ op |-> op, which |-> which,
                       topnItemCount |-> topnItemCount,
                       errorBound |-> errorBound,
                       confidenceInterval |-> confidenceInterval,
                       error |-> error,
                       creates |-> createLast.creates + 1 ]
    /\ UNCHANGED agg
    /\ UNCHANGED wide
    /\ UNCHANGED storage

\* cms(errorBound, confidenceInterval) of cms.c: _createCms from its
\* parameters
create_cms(errorBound, confidenceInterval) ==
    /\ createLast.creates < MaxCreates
    /\ LET error == ParameterError(errorBound, confidenceInterval)
           created == _createCms(SketchDepthFor(confidenceInterval),
                                 SketchWidthFor(errorBound))
       IN  /\ RecordCreate("cms", 0, 0, errorBound, confidenceInterval, error)
           /\ IF error # ""
              THEN UNCHANGED cmsVars
              ELSE /\ cms' = created
                   /\ trueFrequency' = [item \in Items |-> 0]
                   /\ cmsLast' = [ op |-> "cms", item |-> "",
                                   before |-> created.sketch, result |-> 0 ]
    /\ UNCHANGED topnVars
    /\ UNCHANGED mmsVars

\* cms_topn(topnItemCount, errorBound, confidenceInterval) of cms_topn.c and
\* cms(topnItemCount, errorBound, confidenceInterval) of cms_mms.c:
\* CreateCmsTopn and _createCms from their parameters
create_cms_topn(which, topnItemCount, errorBound, confidenceInterval) ==
    /\ createLast.creates < MaxCreates
    /\ LET error == TopnParameterError(topnItemCount, errorBound,
                                       confidenceInterval)
           created == IF variant = "cms_topn"
                      THEN CreateCmsTopn(topnItemCount,
                                         SketchDepthFor(confidenceInterval),
                                         SketchWidthFor(errorBound))
                      ELSE _createCmsTopn(topnItemCount,
                                          SketchDepthFor(confidenceInterval),
                                          SketchWidthFor(errorBound))
       IN  /\ RecordCreate("cms_topn", which, topnItemCount, errorBound,
                           confidenceInterval, error)
           /\ IF error # ""
              THEN UNCHANGED topnVars
              ELSE /\ IF which = 1
                      THEN first' = created /\ stream1' = <<>>
                           /\ UNCHANGED <<second, stream2>>
                      ELSE second' = created /\ stream2' = <<>>
                           /\ UNCHANGED <<first, stream1>>
                   /\ topnLast' = [ op |-> "create", which |-> which,
                                    item |-> "",
                                    sketchBefore |-> created.sketch,
                                    arrayBefore |-> created.topnArray,
                                    newFrequency |-> 0, error |-> "",
                                    offers |-> <<>>, rows |-> <<>>,
                                    adds |-> topnLast.adds ]
                   /\ UNCHANGED <<variant, unions>>
    /\ UNCHANGED cmsVars
    /\ UNCHANGED mmsVars

\* mms(errorBound, confidenceInterval) of cms_mms.c: _createMms from its
\* parameters
create_mms(errorBound, confidenceInterval) ==
    /\ createLast.creates < MaxCreates
    /\ LET error == ParameterError(errorBound, confidenceInterval)
           created == _createMms(SketchDepthFor(confidenceInterval),
                                 SketchWidthFor(errorBound))
       IN  /\ RecordCreate("mms", 0, 0, errorBound, confidenceInterval, error)
           /\ IF error # ""
              THEN UNCHANGED mmsVars
              ELSE /\ mms' = created
                   /\ addedMask' = [item \in Items |-> {}]
                   /\ mmsLast' = [ op |-> "mms", item |-> "", mask |-> {},
                                   newItemMask |-> {},
                                   before |-> created.sketch, result |-> {},
                                   adds |-> mmsLast.adds ]
    /\ UNCHANGED cmsVars
    /\ UNCHANGED topnVars

---------------------------------------------------------------------------
(* Specifications *)

\* the state after construction: a plain sketch, and two top-n sketches of
\* the same implementation, geometry and capacity
InitState(variants, counts) ==
    /\ cms = _createCms(ModelDepth, ModelWidth)
    /\ trueFrequency = [item \in Items |-> 0]
    /\ cmsLast = [ op |-> "cms", item |-> "", before |-> cms.sketch, result |-> 0 ]
    /\ variant \in variants
    /\ \E topnItemCount \in counts :
         /\ first = IF variant = "cms_topn"
                    THEN CreateCmsTopn(topnItemCount, ModelDepth, ModelWidth)
                    ELSE _createCmsTopn(topnItemCount, ModelDepth, ModelWidth)
         /\ second = first
    /\ stream1 = <<>>
    /\ stream2 = <<>>
    /\ unions = 0
    /\ topnLast = [ op |-> "create", which |-> 1, item |-> "",
                    sketchBefore |-> first.sketch,
                    arrayBefore |-> first.topnArray, newFrequency |-> 0,
                    error |-> "", offers |-> <<>>, rows |-> <<>>, adds |-> 0 ]
    /\ mms = _createMms(ModelDepth, ModelWidth)
    /\ addedMask = [item \in Items |-> {}]
    /\ mmsLast = [ op |-> "mms", item |-> "", mask |-> {},
                   newItemMask |-> {},
                   before |-> mms.sketch, result |-> {}, adds |-> 0 ]
    /\ createLast = [ op |-> "none", which |-> 0, topnItemCount |-> 0,
                      errorBound |-> "", confidenceInterval |-> "",
                      error |-> "", creates |-> 0 ]
    /\ agg = [ state |-> <<>>, items |-> <<>>, function |-> "",
               topnItemCount |-> 0, errorBound |-> "",
               confidenceInterval |-> "", outcome |-> "", before |-> <<>> ]
    /\ wide = [ function |-> "", counters |-> <<>>, frequency |-> {},
                result |-> 0, calls |-> 0 ]
    /\ storage = [ status |-> "", topnItemCount |-> 0,
                   topnArrayReservedSize |-> 0, items |-> <<>>,
                   newTopnArraySize |-> 0, calls |-> 0 ]

InitCms == InitState({"cms_topn"}, {1})

InitTopn == InitState({"cms_topn", "cms_mms"}, TopnItemCounts)

\* the plain sketch of cms.c under cms_add
NextCms == \E newItem \in Items : cms_add(newItem)

SpecCms == InitCms /\ [][NextCms]_vars

\* the top-n sketches of cms_topn.c and cms_mms.c under add and union
NextTopn ==
    \/ \E which \in {1, 2}, newItem \in TopnItems : cms_topn_add(which, newItem)
    \/ \E which \in {1, 2}, newItem \in TopnItems : cms_add_topn(which, newItem)
    \/ cms_topn_union
    \/ cms_union

SpecTopn == InitTopn /\ [][NextTopn]_vars

\* the top-n sketches under add, union and the read of the top-n items
NextRead ==
    \/ NextTopn
    \/ \E which \in {1, 2} : topn(which)
    \/ \E which \in {1, 2} : cms_topn(which)

SpecRead == InitTopn /\ [][NextRead]_vars

\* the state before the calls of the creating functions
InitCreate == InitState({"cms_topn", "cms_mms"}, {1})

\* the creating functions called with parameters inside and outside (0, 1)
NextCreate ==
    \/ \E errorBound \in ErrorBounds, confidenceInterval \in ConfidenceIntervals :
          create_cms(errorBound, confidenceInterval)
    \/ \E which \in {1, 2}, topnItemCount \in TopnItemCountArguments,
          errorBound \in ErrorBounds, confidenceInterval \in ConfidenceIntervals :
          create_cms_topn(which, topnItemCount, errorBound, confidenceInterval)
    \/ \E errorBound \in ErrorBounds, confidenceInterval \in ConfidenceIntervals :
          create_mms(errorBound, confidenceInterval)

SpecCreate == InitCreate /\ [][NextCreate]_vars

\* the items of two types the top-n sketches are fed
TypedItems == {"x", "w", "t"}

\* the top-n sketches under add and union with items of two types
NextTyped ==
    \/ \E which \in {1, 2}, newItem \in TypedItems : cms_topn_add(which, newItem)
    \/ \E which \in {1, 2}, newItem \in TypedItems : cms_add_topn(which, newItem)
    \/ cms_topn_union
    \/ cms_union

SpecTyped == InitTopn /\ [][NextTyped]_vars

\* the min-mask sketch of cms_mms.c under mms_add and mms_get_mask
NextMms ==
    \/ \E newItem \in MaskItems, mask \in Masks : mms_add(newItem, mask)
    \/ \E item \in MaskItems : mms_get_mask(item)

SpecMms == InitCms /\ [][NextMms]_vars

\* how the second sketch's capacity, depth and width differ from the first's
SecondShapes ==
    { [topnItemCount |-> 0, sketchDepth |-> 0, sketchWidth |-> 0],
      [topnItemCount |-> 1, sketchDepth |-> 0, sketchWidth |-> 0],
      [topnItemCount |-> 0, sketchDepth |-> 1, sketchWidth |-> 0],
      [topnItemCount |-> 0, sketchDepth |-> 0, sketchWidth |-> 1] }

\* the state after construction of two top-n sketches of one implementation
\* that were created with the same or with different parameters
InitMixed ==
    /\ cms = _createCms(ModelDepth, ModelWidth)
    /\ trueFrequency = [item \in Items |-> 0]
    /\ cmsLast = [ op |-> "cms", item |-> "", before |-> cms.sketch, result |-> 0 ]
    /\ variant \in {"cms_topn", "cms_mms"}
    /\ first = IF variant = "cms_topn"
               THEN CreateCmsTopn(1, ModelDepth, ModelWidth)
               ELSE _createCmsTopn(1, ModelDepth, ModelWidth)
    /\ \E shape \in SecondShapes :
         second = IF variant = "cms_topn"
                  THEN CreateCmsTopn(1 + shape.topnItemCount,
                                     ModelDepth + shape.sketchDepth,
                                     ModelWidth + shape.sketchWidth)
                  ELSE _createCmsTopn(1 + shape.topnItemCount,
                                      ModelDepth + shape.sketchDepth,
                                      ModelWidth + shape.sketchWidth)
    /\ stream1 = <<>>
    /\ stream2 = <<>>
    /\ unions = 0
    /\ topnLast = [ op |-> "create", which |-> 1, item |-> "",
                    sketchBefore |-> first.sketch,
                    arrayBefore |-> first.topnArray, newFrequency |-> 0,
                    error |-> "", offers |-> <<>>, rows |-> <<>>, adds |-> 0 ]
    /\ mms = _createMms(ModelDepth, ModelWidth)
    /\ addedMask = [item \in Items |-> {}]
    /\ mmsLast = [ op |-> "mms", item |-> "", mask |-> {},
                   newItemMask |-> {},
                   before |-> mms.sketch, result |-> {}, adds |-> 0 ]
    /\ createLast = [ op |-> "none", which |-> 0, topnItemCount |-> 0,
                      errorBound |-> "", confidenceInterval |-> "",
                      error |-> "", creates |-> 0 ]
    /\ agg = [ state |-> <<>>, items |-> <<>>, function |-> "",
               topnItemCount |-> 0, errorBound |-> "",
               confidenceInterval |-> "", outcome |-> "", before |-> <<>> ]
    /\ wide = [ function |-> "", counters |-> <<>>, frequency |-> {},
                result |-> 0, calls |-> 0 ]
    /\ storage = [ status |-> "", topnItemCount |-> 0,
                   topnArrayReservedSize |-> 0, items |-> <<>>,
                   newTopnArraySize |-> 0, calls |-> 0 ]

\* the same operations on sketches whose parameters may differ
SpecMixed == InitMixed /\ [][NextTopn]_vars

---------------------------------------------------------------------------
(* Notions the properties are stated with *)

Range(seq) == { seq[i] : i \in 1..Len(seq) }

\* the estimate of the running top-n implementation
Estimate(c, item) ==
    IF variant = "cms_topn"
    THEN CmsTopnEstimateItemFrequency(c, item)
    ELSE _cmsEstimateItemFrequency(c, item)

\* the lowest current estimate among the items of a top-n array
MinLive(c, topnArray) ==
    LET live == { Estimate(c, topnArray[i]) : i \in 1..Len(topnArray) }
    IN  CHOOSE m \in live : \A n \in live : m <= n

\* the sketch the offers of the last operation were estimated against
Offered == Target(topnLast.which)

\* an offer made to a full array that does not hold the candidate
FullUntracked(c, o) ==
    /\ Len(o.before) = c.topnItemCount
    /\ o.candidate \notin Range(o.before)

\* a fresh top-n sketch of the running implementation fed a stream of items
RECURSIVE Feed(_, _)
Feed(c, stream) ==
    IF stream = <<>> THEN c
    ELSE Feed(IF variant = "cms_topn"
              THEN CmsTopnAddItem(c, Head(stream)).cms
              ELSE _updateCmsTopn(c, Head(stream)).cms,
              Tail(stream))

Fresh ==
    IF variant = "cms_topn"
    THEN CreateCmsTopn(first.topnItemCount, first.sketchDepth, first.sketchWidth)
    ELSE _createCmsTopn(first.topnItemCount, first.sketchDepth, first.sketchWidth)

\* no two different items of the stream share a cell
NoSharedCells(c, stream) ==
    \A a, b \in Range(stream) :
        a # b => CellsOf(c.sketchDepth, c.sketchWidth, a)
                   \cap CellsOf(c.sketchDepth, c.sketchWidth, b) = {}

\* the last operation was the first union, of two sketches built by adds only
FirstUnionDone ==
    topnLast.op = "union" /\ unions = 1 /\ topnLast.error = ""

---------------------------------------------------------------------------
(* Properties *)

\* C1: one-sided error.  After any sequence of cms_add calls, the estimate
\* of every item is at least the number of times it was added.
OneSidedError ==
    \A item \in Items :
        _cmsEstimateItemFrequency(cms, item) >= trueFrequency[item]

\* C1 witness: an item was added twice and its estimate exceeds its count
\* because of another item's adds
OneSidedErrorWitness ==
    \E item \in Items :
        /\ trueFrequency[item] >= 2
        /\ _cmsEstimateItemFrequency(cms, item) > trueFrequency[item]

\* C2 as claimed: the first union of two sketches built by adds has the
\* counter matrix of one fresh sketch fed the first stream, then the second.
UnionEqualsSingleStream ==
    FirstUnionDone =>
        first.sketch = Feed(Fresh, stream1 \o stream2).sketch

\* C2 amended: the same, provided no two different items of the two streams
\* share a cell.
UnionEqualsSingleStreamNoSharedCells ==
    (FirstUnionDone /\ NoSharedCells(first, stream1 \o stream2)) =>
        first.sketch = Feed(Fresh, stream1 \o stream2).sketch

\* C2 witness: a union that summed two matrices and offered the second
\* sketch's items, with one item in both streams and no shared cells
UnionEqualsSingleStreamWitness ==
    /\ FirstUnionDone
    /\ NoSharedCells(first, stream1 \o stream2)
    /\ topnLast.offers # <<>>
    /\ Range(stream1) \cap Range(stream2) # {}
    /\ Cardinality(Range(stream1 \o stream2)) >= 2

\* C3: a tie does not evict.  An offer to a full array that does not hold
\* the candidate, with the candidate's frequency equal to the lowest current
\* estimate among the array's items, replaces nothing and reports no change.
TieDoesNotEvict ==
    \A i \in 1..Len(topnLast.offers) :
        LET o == topnLast.offers[i]
        IN  (/\ FullUntracked(Offered, o)
             /\ o.frequency = MinLive(Offered, o.before))
            => (o.after = o.before /\ ~o.updated)

\* C4: tracked items are unique.  No top-n array holds an item twice.
TrackedItemsUnique ==
    \A which \in {1, 2} :
        LET topnArray == Target(which).topnArray
        IN  \A i, j \in 1..Len(topnArray) :
                i # j => topnArray[i] # topnArray[j]

\* C5: capacity bound.  No top-n array holds more than topnItemCount items.
CapacityBound ==
    \A which \in {1, 2} :
        Len(Target(which).topnArray) <= Target(which).topnItemCount

\* C5 witness: an offer to a full array put the candidate in
CapacityBoundWitness ==
    \E i \in 1..Len(topnLast.offers) :
        /\ Len(topnLast.offers[i].before) = Offered.topnItemCount
        /\ topnLast.offers[i].updated

\* C6 as claimed: the threshold is the lowest current estimate among the
\* tracked items when the array is full, and the maximum frequency otherwise.
ThresholdMeaning ==
    \A which \in {1, 2} :
        LET c == Target(which)
        IN  IF Len(c.topnArray) = c.topnItemCount
            THEN c.minFrequencyOfTopnItems = MinLive(c, c.topnArray)
            ELSE c.minFrequencyOfTopnItems = MAX_FREQUENCY

\* C6 amended: whenever the array is not empty, full or not, the threshold
\* is at most the lowest current estimate among the tracked items; while the
\* array is empty the threshold is the one set at creation (the maximum
\* frequency in cms_topn.c, 0 in cms_mms.c).
ThresholdLowerBound ==
    \A which \in {1, 2} :
        LET c == Target(which)
        IN  IF Len(c.topnArray) > 0
            THEN c.minFrequencyOfTopnItems <= MinLive(c, c.topnArray)
            ELSE c.minFrequencyOfTopnItems =
                     (IF variant = "cms_topn" THEN MAX_FREQUENCY ELSE 0)

\* C6 witness: a full array whose threshold is below every current estimate,
\* after an offer changed the array
ThresholdLowerBoundWitness ==
    /\ Len(Offered.topnArray) = Offered.topnItemCount
    /\ Offered.minFrequencyOfTopnItems < MinLive(Offered, Offered.topnArray)
    /\ \E i \in 1..Len(topnLast.offers) : topnLast.offers[i].updated

\* C7: threshold after eviction.  When an offer to a full array replaces an
\* entry by the candidate, the threshold it leaves is the lowest current
\* estimate among the items of the new array.
ThresholdAfterEviction ==
    \A i \in 1..Len(topnLast.offers) :
        LET o == topnLast.offers[i]
        IN  (FullUntracked(Offered, o) /\ o.updated)
            => o.thresholdAfter = MinLive(Offered, o.after)

\* C8: conservative update step.  An add sets each counter indexed by the
\* item to the larger of its old value and the new frequency, and leaves
\* every other counter as it was.
ConservativeUpdateStep ==
    topnLast.op = "add" =>
        LET c == Offered
            cells == CellsOf(c.sketchDepth, c.sketchWidth, topnLast.item)
        IN  \A k \in DOMAIN c.sketch :
                c.sketch[k] =
                    IF k \in cells
                    THEN Max(topnLast.sketchBefore[k], topnLast.newFrequency)
                    ELSE topnLast.sketchBefore[k]

\* C8 witness: an add of cms_mms.c that raised one indexed counter and left
\* a larger one untouched
ConservativeUpdateStepWitness ==
    /\ topnLast.op = "add"
    /\ variant = "cms_mms"
    /\ LET c == Offered
           cells == CellsOf(c.sketchDepth, c.sketchWidth, topnLast.item)
       IN  /\ \E k \in cells : topnLast.sketchBefore[k] > topnLast.newFrequency
           /\ \E k \in cells : topnLast.sketchBefore[k] < c.sketch[k]

\* C9: an add returns the estimate of the item before the add plus one, and
\* the estimate of the item after the add is the returned value.
AddReturnsEstimatePlusOne ==
    topnLast.op = "add" =>
        /\ topnLast.newFrequency =
               Estimate([Offered EXCEPT !.sketch = topnLast.sketchBefore],
                        topnLast.item) + 1
        /\ Estimate(Offered, topnLast.item) = topnLast.newFrequency

\* C9 witness: an add of cms_mms.c of an item whose cells held different
\* counts returned 2 or more
AddReturnsEstimatePlusOneWitness ==
    /\ topnLast.op = "add"
    /\ variant = "cms_mms"
    /\ topnLast.newFrequency >= 2
    /\ LET cells == CellsOf(Offered.sketchDepth, Offered.sketchWidth, topnLast.item)
       IN  \E k, l \in cells : topnLast.sketchBefore[k] # topnLast.sketchBefore[l]

\* C10: exactness in isolation.  An item added k times, none of whose cells
\* is a cell of another added item, has the estimate k.
ExactInIsolation ==
    \A item \in Items :
        (\A other \in Items \ {item} :
            trueFrequency[other] > 0 =>
                CellsOf(cms.sketchDepth, cms.sketchWidth, other)
                  \cap CellsOf(cms.sketchDepth, cms.sketchWidth, item) = {})
        => _cmsEstimateItemFrequency(cms, item) = trueFrequency[item]

\* C10 witness: two items with no cell in common, each added twice or more
ExactInIsolationWitness ==
    \E item, other \in Items :
        /\ item # other
        /\ trueFrequency[item] >= 2
        /\ trueFrequency[other] >= 2
        /\ \A third \in Items \ {item} :
              trueFrequency[third] > 0 =>
                  CellsOf(cms.sketchDepth, cms.sketchWidth, third)
                    \cap CellsOf(cms.sketchDepth, cms.sketchWidth, item) = {}

\* C11: merge is the elementwise sum.  After a union of two sketches of equal
\* depth, width and capacity, every counter of the result is the sum of the
\* two operands' counters at that position, also when the union returned one
\* operand because the other's top-n array was empty.
UnionIsElementwiseSum ==
    (topnLast.op = "union" /\ topnLast.error = "") =>
        \A k \in DOMAIN first.sketch :
            first.sketch[k] = topnLast.sketchBefore[k] + second.sketch[k]

\* C11 witness: the first union, of a first sketch that received nothing and
\* a second sketch that received items; the union returned the second sketch
UnionIsElementwiseSumWitness ==
    /\ FirstUnionDone
    /\ stream1 = <<>>
    /\ stream2 # <<>>
    /\ first = second

\* the items of the streams other than item that have a cell of item
Sharers(c, stream, item) ==
    { other \in Range(stream) \ {item} :
        CellsOf(c.sketchDepth, c.sketchWidth, other)
          \cap CellsOf(c.sketchDepth, c.sketchWidth, item) # {} }

\* C12: merged estimates add up.  After a union, the estimate of every item
\* on the result is at least the sum of its estimates on the two operands,
\* and for the first union of two sketches built by adds it equals that sum
\* for an item none of whose cells is a cell of another added item.
MergedEstimatesAddUp ==
    (topnLast.op = "union" /\ topnLast.error = "") =>
        \A item \in Items :
            LET before == [first EXCEPT !.sketch = topnLast.sketchBefore]
                summed == Estimate(before, item) + Estimate(second, item)
            IN  /\ Estimate(first, item) >= summed
                /\ (unions = 1 /\ Sharers(first, stream1 \o stream2, item) = {})
                   => Estimate(first, item) = summed

\* C12 witness: the first union summed two matrices; an item added to both
\* sketches, three times or more in all, shares no cell with the other items
\* added, and its estimate is the sum of its two estimates
MergedEstimatesAddUpWitness ==
    /\ FirstUnionDone
    /\ topnLast.offers # <<>>
    /\ \E item \in Range(stream1) \cap Range(stream2) :
          /\ Sharers(first, stream1 \o stream2, item) = {}
          /\ Range(stream1 \o stream2) # {item}
          /\ Estimate(second, item) >= 1
          /\ Estimate(first, item) >= 3
          /\ Estimate(first, item) =
               Estimate([first EXCEPT !.sketch = topnLast.sketchBefore], item)
                 + Estimate(second, item)

\* the parameters cms_topn_union and _cmsUnion compare
Incompatible(a, b) ==
    \/ a.sketchDepth # b.sketchDepth
    \/ a.sketchWidth # b.sketchWidth
    \/ a.topnItemCount # b.topnItemCount

\* C13: merge rejects incompatible operands.  A union of two sketches whose
\* depth, width or capacity differ raises an error, whether or not a top-n
\* array is empty, and leaves both sketches as they were.
MergeRejectsIncompatible ==
    [][ (/\ unions' = unions + 1
         /\ Incompatible(first, second))
        => (/\ topnLast'.op = "union"
            /\ topnLast'.error # ""
            /\ first' = first
            /\ second' = second) ]_vars

\* C13 witness: a union of a sketch that received nothing with a sketch of
\* other parameters that received items has raised the error
MergeRejectsIncompatibleWitness ==
    /\ topnLast.op = "union"
    /\ topnLast.error # ""
    /\ Incompatible(first, second)
    /\ first.topnArray = <<>>
    /\ second.topnArray # <<>>

\* the items in the top-n arrays of the two operands of the last union
TrackedByOperands == Range(topnLast.arrayBefore) \cup Range(second.topnArray)

\* C14: the merged tracker holds the union's top candidates.  After a union
\* the result's top-n array has min(topnItemCount, number of different items
\* in the operands' arrays) entries, and every item of the operands' arrays
\* that is not in it has an estimate on the result at most that of every
\* item in it.
MergedTrackerHoldsTop ==
    (topnLast.op = "union" /\ topnLast.error = "") =>
        /\ Len(first.topnArray) =
               Min(first.topnItemCount, Cardinality(TrackedByOperands))
        /\ \A absent \in TrackedByOperands \ Range(first.topnArray) :
               \A kept \in Range(first.topnArray) :
                   Estimate(first, absent) <= Estimate(first, kept)

\* the lowest index of an entry whose current estimate is the lowest
MinLiveIndex(c, topnArray) ==
    CHOOSE i \in 1..Len(topnArray) :
        /\ Estimate(c, topnArray[i]) = MinLive(c, topnArray)
        /\ \A j \in 1..(i - 1) :
              Estimate(c, topnArray[j]) # MinLive(c, topnArray)

\* C15: eviction victim.  An offer to a full array that does not hold the
\* candidate, with the candidate's frequency greater than the lowest current
\* estimate among the array's items, puts the candidate in the place of the
\* first entry with that lowest estimate, leaves the other entries where
\* they were, and reports a change.
EvictionVictim ==
    \A i \in 1..Len(topnLast.offers) :
        LET o == topnLast.offers[i]
        IN  (/\ FullUntracked(Offered, o)
             /\ o.frequency > MinLive(Offered, o.before))
            => /\ o.updated
               /\ o.after = [o.before EXCEPT
                               ![MinLiveIndex(Offered, o.before)] = o.candidate]

\* C15 witness: such an offer to an array of two or more entries, two of
\* which have the lowest estimate
EvictionVictimWitness ==
    \E i \in 1..Len(topnLast.offers) :
        LET o == topnLast.offers[i]
        IN  /\ FullUntracked(Offered, o)
            /\ o.frequency > MinLive(Offered, o.before)
            /\ o.updated
            /\ \E j, k \in 1..Len(o.before) :
                  /\ j # k
                  /\ o.before[j] # o.before[k]
                  /\ Estimate(Offered, o.before[j]) = MinLive(Offered, o.before)
                  /\ Estimate(Offered, o.before[k]) = MinLive(Offered, o.before)

\* C16: an offer of a tracked item is a no-op.  An offer whose candidate is
\* in the array leaves the array and the threshold as they were and reports
\* no change, whatever the frequency and whether or not the array is full.
TrackedOfferIsNoOp ==
    \A i \in 1..Len(topnLast.offers) :
        LET o == topnLast.offers[i]
        IN  o.candidate \in Range(o.before)
            => /\ o.after = o.before
               /\ o.thresholdAfter = o.thresholdBefore
               /\ ~o.updated

\* an offer made to an array with place left that does not hold the candidate
RoomUntracked(c, o) ==
    /\ Len(o.before) < c.topnItemCount
    /\ o.candidate \notin Range(o.before)

\* C17 as claimed: insert with room.  An offer to an array with place left
\* that does not hold the candidate appends the candidate, sets the threshold
\* to the smaller of the old threshold and the candidate's frequency, and
\* reports a change.
InsertWithRoomOldThreshold ==
    \A i \in 1..Len(topnLast.offers) :
        LET o == topnLast.offers[i]
        IN  RoomUntracked(Offered, o)
            => /\ o.updated
               /\ o.after = Append(o.before, o.candidate)
               /\ o.thresholdAfter = Min(o.thresholdBefore, o.frequency)

\* C17 amended: the same, but the threshold is set to the lowest current
\* estimate among the items of the new array: the smaller of the candidate's
\* frequency and the lowest re-estimated frequency of the items already in
\* the array.
InsertWithRoomLiveThreshold ==
    \A i \in 1..Len(topnLast.offers) :
        LET o == topnLast.offers[i]
        IN  RoomUntracked(Offered, o)
            => /\ o.updated
               /\ o.after = Append(o.before, o.candidate)
               /\ o.thresholdAfter = MinLive(Offered, o.after)

\* C17 witness: such an offer to a non-empty array with a frequency above
\* the old threshold, which left a threshold that is neither the old one nor
\* above the lowest estimate of the items already in the array
InsertWithRoomLiveThresholdWitness ==
    \E i \in 1..Len(topnLast.offers) :
        LET o == topnLast.offers[i]
        IN  /\ RoomUntracked(Offered, o)
            /\ o.before # <<>>
            /\ o.frequency > o.thresholdBefore
            /\ o.thresholdAfter # o.thresholdBefore
            /\ o.thresholdAfter = MinLive(Offered, o.before)
            /\ o.after = Append(o.before, o.candidate)

\* C18: early reject.  An offer to a full array with a frequency at most the
\* threshold changes neither the array nor the threshold and reports no
\* change.
EarlyReject ==
    \A i \in 1..Len(topnLast.offers) :
        LET o == topnLast.offers[i]
        IN  (/\ Len(o.before) = Offered.topnItemCount
             /\ o.frequency <= o.thresholdBefore)
            => /\ o.after = o.before
               /\ o.thresholdAfter = o.thresholdBefore
               /\ ~o.updated

\* C18 witness: an offer of an item the full array does not hold, with a
\* frequency equal to the threshold, was rejected
EarlyRejectWitness ==
    \E i \in 1..Len(topnLast.offers) :
        LET o == topnLast.offers[i]
        IN  /\ FullUntracked(Offered, o)
            /\ o.frequency = o.thresholdBefore
            /\ o.after = o.before
            /\ ~o.updated

\* the rows are the items of the array in some order, each with its current
\* estimate, the frequencies never increasing from one row to the next
RowsAreSortedArray(c, topnArray, rows) ==
    /\ Len(rows) = Len(topnArray)
    /\ \E p \in Permutations(1..Len(topnArray)) :
          \A k \in 1..Len(rows) : rows[k].item = topnArray[p[k]]
    /\ \A k \in 1..Len(rows) : rows[k].frequency = Estimate(c, rows[k].item)
    /\ \A k \in 1..(Len(rows) - 1) : rows[k].frequency >= rows[k + 1].frequency

MaskEstimateIsSuperset ==
    \A item \in Items : addedMask[item] \subseteq _mmsEstimateItemMask(mms, item)

\* the row of the first cell that has the fewest set bits among the cells
\* of an item in a matrix
FewestBitsRow(m, sketch, item) ==
    CHOOSE row \in 0..(m.sketchDepth - 1) :
        LET cell(r) == sketch[CounterIndex(m.sketchWidth, MurmurHash3_x64_128(item), r)]
        IN  \A other \in 0..(m.sketchDepth - 1) :
                /\ Cardinality(cell(row)) <= Cardinality(cell(other))
                /\ other < row => Cardinality(cell(other)) > Cardinality(cell(row))

\* C21: mask add step.  _updateMmsInPlace, given an item and a mask, takes
\* newMask = (the item's cell with the fewest set bits, first row on ties)
\* OR mask, replaces an indexed cell by newMask if and only if newMask has
\* more set bits than the cell, leaves the other cells alone and returns
\* newMask.
MaskAddStep ==
    mmsLast.op = "mms_add" =>
        LET cells == CellsOf(mms.sketchDepth, mms.sketchWidth, mmsLast.item)
            row == FewestBitsRow(mms, mmsLast.before, mmsLast.item)
            minCell == CounterIndex(mms.sketchWidth,
                                    MurmurHash3_x64_128(mmsLast.item), row)
            newMask == mmsLast.before[minCell] \cup mmsLast.newItemMask
        IN  /\ mmsLast.result = newMask
            /\ \A k \in DOMAIN mms.sketch :
                 mms.sketch[k] =
                   IF k \in cells
                      /\ Cardinality(newMask) > Cardinality(mmsLast.before[k])
                   THEN newMask ELSE mmsLast.before[k]

\* C21 witness: an add replaced one cell of the item and kept another cell
\* of the item that differs from the new mask and has as many set bits, the
\* fewest-bits cell not being in the first row
MaskAddStepWitness ==
    /\ mmsLast.op = "mms_add"
    /\ FewestBitsRow(mms, mmsLast.before, mmsLast.item) > 0
    /\ \E k, l \in CellsOf(mms.sketchDepth, mms.sketchWidth, mmsLast.item) :
         /\ mms.sketch[k] # mmsLast.before[k]
         /\ mms.sketch[l] = mmsLast.before[l]
         /\ mms.sketch[l] # mmsLast.result
         /\ Cardinality(mms.sketch[l]) = Cardinality(mmsLast.result)

\* an add of newItem to a sketch whose top-n array holds items of another type
OtherTypeTracked(c, newItem) ==
    /\ c.topnArray # <<>>
    /\ \E i \in 1..Len(c.topnArray) : TypeOf(c.topnArray[i]) # TypeOf(newItem)

\* C22: type mismatch on add.  An add (cms_topn_add of cms_topn.c, cms_add of
\* cms_mms.c) of an item whose type differs from the type of the items of a
\* non-empty top-n array raises an error, and the
\* matrix, the top-n array and the threshold of the sketch (and the other
\* sketch) are as before the call.
TypeMismatchOnAdd ==
    [][ (/\ topnLast'.op = "add"
         /\ topnLast'.adds = topnLast.adds + 1
         /\ OtherTypeTracked(Target(topnLast'.which), topnLast'.item))
        => (/\ topnLast'.error # ""
            /\ first' = first
            /\ second' = second) ]_vars

\* C22 witness: an add was refused for its type by a sketch that held items
TypeMismatchOnAddWitness ==
    /\ topnLast.op = "add"
    /\ topnLast.error # ""
    /\ OtherTypeTracked(Offered, topnLast.item)
    /\ Offered.sketch = topnLast.sketchBefore
    /\ \E k \in DOMAIN Offered.sketch : Offered.sketch[k] > 0

\* the sketch the last call of a creating function returned
Created ==
    CASE createLast.op = "cms" -> cms
      [] createLast.op = "cms_topn" -> Target(createLast.which)
      [] createLast.op = "mms" -> mms

\* the parameters of the last call of a creating function are outside the
\* claimed domain
OutsideDomain ==
    \/ Float8LessOrEqualZero(createLast.errorBound)
    \/ Float8GreaterOrEqualOne(createLast.errorBound)
    \/ Float8LessOrEqualZero(createLast.confidenceInterval)
    \/ Float8GreaterOrEqualOne(createLast.confidenceInterval)
    \/ createLast.op = "cms_topn" /\ createLast.topnItemCount <= 0

\* C23: creation validation.  A creating function raises an error exactly
\* when the error bound or the confidence interval is <= 0 or >= 1 or (top-n
\* sketches) the number of top-n items is <= 0; otherwise it returns a sketch
\* with every counter zero, no tracked item, depth >= 1 and width >= 1.
CreationValidation ==
    createLast.op # "none" =>
        /\ (createLast.error # "") = OutsideDomain
        /\ createLast.error = "" =>
             /\ \A k \in DOMAIN Created.sketch :
                  Created.sketch[k] = (IF createLast.op = "mms" THEN {} ELSE 0)
             /\ createLast.op = "cms_topn" => Created.topnArray = <<>>
             /\ Created.sketchDepth >= 1
             /\ Created.sketchWidth >= 1

\* the estimate of an item the running top-n implementation returns to the
\* caller
TopnFrequency(c, item) ==
    IF variant = "cms_topn"
    THEN CmsTopnFrequency(c, item)
    ELSE CmsMmsGetFrequency(c, item)

\* C24: fresh sketch.  For every sketch returned by a creating function that
\* has received no add, the estimate of every item is 0 (for the mask sketch
\* the empty mask).  No add is made in the specification this is stated for.
FreshSketchEstimatesZero ==
    \A item \in Items :
        /\ CmsGetFrequency(cms, item) = [error |-> "", frequency |-> 0]
        /\ TopnFrequency(first, item) = [error |-> "", frequency |-> 0]
        /\ TopnFrequency(second, item) = [error |-> "", frequency |-> 0]
        /\ MmsGetMask(mms, item) = [error |-> "", mask |-> {}]

\* C25: counters never decrease.  Across an add to a top-n sketch (cms_add
\* of cms_mms.c runs the text of _updateCmsInPlace of cms.c, cms_topn_add
\* runs UpdateCountMinSketch) every counter of the matrix is afterwards at
\* least what it was before.
CountersNeverDecrease ==
    [][ topnLast'.op = "add" =>
          /\ \A k \in DOMAIN first.sketch : first'.sketch[k] >= first.sketch[k]
          /\ \A k \in DOMAIN second.sketch : second'.sketch[k] >= second.sketch[k]
      ]_vars

\* C25 witness: an add raised a counter that was not zero and left another
\* counter of the item, which was higher, as it was
CountersNeverDecreaseWitness ==
    /\ topnLast.op = "add"
    /\ topnLast.error = ""
    /\ \E k, l \in CellsOf(Offered.sketchDepth, Offered.sketchWidth, topnLast.item) :
         /\ topnLast.sketchBefore[k] > 0
         /\ Offered.sketch[k] > topnLast.sketchBefore[k]
         /\ topnLast.sketchBefore[l] > Offered.sketch[k]
         /\ Offered.sketch[l] = topnLast.sketchBefore[l]

---------------------------------------------------------------------------
(* The estimate, the top-n read and the description as operations of the   *)
(* top-n sketches                                                          *)

\* an estimate that also counts the item in the matrix
RecordFrequencyCounting(which, item, returned) ==
    /\ IF which = 1
       THEN first' = _updateCmsInPlace(first, item).cms /\ UNCHANGED second
       ELSE second' = _updateCmsInPlace(second, item).cms /\ UNCHANGED first
    /\ topnLast' = [ op |-> "frequency", which |-> which, item |-> item,
                     sketchBefore |-> Target(which).sketch,
                     arrayBefore |-> Target(which).topnArray,
                     newFrequency |-> returned.frequency,
                     error |-> returned.error, offers |-> <<>>,
                     rows |-> <<>>,
                     adds |-> topnLast.adds ]
    /\ UNCHANGED <<variant, stream1, stream2, unions>>
    /\ UNCHANGED cmsVars
    /\ UNCHANGED mmsVars
    /\ UNCHANGED createLast
    /\ UNCHANGED wide
    /\ UNCHANGED storage
    /\ UNCHANGED agg

\* the state change of an estimate of "item" on sketch "which": the functions
\* write neither the sketch nor the array
RecordFrequency(which, item, returned) ==
    /\ topnLast' = [ op |-> "frequency", which |-> which, item |-> item,
                     sketchBefore |-> Target(which).sketch,
                     arrayBefore |-> Target(which).topnArray,
                     newFrequency |-> returned.frequency,
                     error |-> returned.error, offers |-> <<>>,
                     rows |-> <<>>,
                     adds |-> topnLast.adds ]
    /\ UNCHANGED <<variant, first, second, stream1, stream2, unions>>
    /\ UNCHANGED cmsVars
    /\ UNCHANGED mmsVars
    /\ UNCHANGED createLast
    /\ UNCHANGED wide
    /\ UNCHANGED storage
    /\ UNCHANGED agg

\* cms_topn_frequency of cms_topn.c on a non-null sketch and item
cms_topn_frequency(which, item) ==
    /\ variant = "cms_topn"
    /\ RecordFrequency(which, item, CmsTopnFrequency(Target(which), item))

\* cms_get_frequency of cms_mms.c on a non-null sketch and item
cms_get_frequency(which, item) ==
    /\ variant = "cms_mms"
    /\ RecordFrequency(which, item, CmsMmsGetFrequency(Target(which), item))

\* the text of cms_topn_info and of cms_info of cms_mms.c, as its two fields
\* of the geometry (the size in kB, computed from VARSIZE, is left out)
CmsTopnInfo(cmsTopn) ==
    [ sketchDepth |-> cmsTopn.sketchDepth, sketchWidth |-> cmsTopn.sketchWidth ]

\* the state change of a description of sketch "which"
RecordInfo(which, returned) ==
    /\ topnLast' = [ op |-> "info", which |-> which, item |-> "",
                     sketchBefore |-> Target(which).sketch,
                     arrayBefore |-> Target(which).topnArray,
                     newFrequency |-> 0,
                     error |-> "", offers |-> <<>>,
                     rows |-> <<returned>>,
                     adds |-> topnLast.adds ]
    /\ UNCHANGED <<variant, first, second, stream1, stream2, unions>>
    /\ UNCHANGED cmsVars
    /\ UNCHANGED mmsVars
    /\ UNCHANGED createLast
    /\ UNCHANGED wide
    /\ UNCHANGED storage
    /\ UNCHANGED agg

\* cms_topn_info of cms_topn.c
cms_topn_info(which) ==
    /\ variant = "cms_topn"
    /\ RecordInfo(which, CmsTopnInfo(Target(which)))

\* cms_info of cms_mms.c
cms_info(which) ==
    /\ variant = "cms_mms"
    /\ RecordInfo(which, CmsTopnInfo(Target(which)))

\* two sketches of capacity 2 of either implementation
InitEstimate == InitState({"cms_topn", "cms_mms"}, {2})

\* the top-n sketches under add, estimate, top-n read and description
NextEstimate ==
    \/ \E which \in {1, 2}, newItem \in TopnItems : cms_topn_add(which, newItem)
    \/ \E which \in {1, 2}, newItem \in TopnItems : cms_add_topn(which, newItem)
    \/ \E which \in {1, 2} : topn(which)
    \/ \E which \in {1, 2} : cms_topn(which)
    \/ \E which \in {1, 2}, item \in TopnItems : cms_topn_frequency(which, item)
    \/ \E which \in {1, 2}, item \in TopnItems : cms_get_frequency(which, item)
    \/ \E which \in {1, 2} : cms_topn_info(which)
    \/ \E which \in {1, 2} : cms_info(which)

SpecEstimate == InitEstimate /\ [][NextEstimate]_vars

\* the smallest of the counters of the item in the rows of the matrix
MinimumOfRows(c, item) ==
    LET counters == { c.sketch[k] : k \in CellsOf(c.sketchDepth, c.sketchWidth, item) }
    IN  CHOOSE m \in counters : \A n \in counters : m <= n

\* C26: an estimate that returns a value returns the smallest of the
\* counters of the item in the D rows, and an estimate, a read of the top-n
\* items and a description leave both sketches as they were: every counter,
\* every tracked item and the threshold
EstimateIsReadOnly ==
    [][ topnLast'.op \in {"frequency", "topn", "info"} =>
          /\ first' = first
          /\ second' = second
          /\ (topnLast'.op = "frequency" /\ topnLast'.error = "") =>
               topnLast'.newFrequency
                 = MinimumOfRows(Target(topnLast'.which), topnLast'.item)
      ]_vars

\* an estimate has returned a count of 2 or more from a sketch whose array
\* is full
EstimateIsReadOnlyWitness ==
    /\ topnLast.op = "frequency"
    /\ topnLast.error = ""
    /\ topnLast.newFrequency >= 2
    /\ Len(Target(topnLast.which).topnArray) = 2

\* the depth, the width and the capacity of a sketch, and the number of the
\* counters its matrix holds
Geometry(c) ==
    <<c.sketchDepth, c.sketchWidth, c.topnItemCount, Cardinality(DOMAIN c.sketch)>>

\* C27: no add, with the offer to the tracker it makes, and no union changes
\* the depth, the width or the capacity of a sketch: each sketch keeps the
\* values it was created with, and a matrix of depth times width counters
GeometryIsFixed ==
    [][ /\ Geometry(first') = Geometry(first)
        /\ Geometry(second') = Geometry(second)
        /\ first'.sketchDepth * first'.sketchWidth = Cardinality(DOMAIN first'.sketch)
      ]_vars

\* a union has replaced the first sketch, whose array was empty, by the
\* second, which adds had filled
GeometryIsFixedWitness ==
    /\ topnLast.op = "union"
    /\ topnLast.error = ""
    /\ topnLast.arrayBefore = <<>>
    /\ first.topnArray # <<>>
    /\ topnLast.sketchBefore # first.sketch
    /\ Geometry(first) = Geometry(second)

\* the plain sketch of cms.c after cms_add of each item of the stream in turn
RECURSIVE FeedPlain(_, _)
FeedPlain(c, stream) ==
    IF stream = <<>> THEN c
    ELSE FeedPlain(_updateCms(c, Head(stream)).cms, Tail(stream))

\* the plain sketch of the depth and width of the top-n sketch c
PlainOf(c) == _createCms(c.sketchDepth, c.sketchWidth)

\* C28: while only adds were made, the matrix of each top-n sketch equals the
\* matrix of the plain sketch of cms.c of the same depth and width that was
\* fed the same items in the same order, and the add made last returned the
\* frequency the plain sketch returns for it
TrackerDoesNotInfluenceMatrix ==
    unions = 0 =>
      /\ first.sketch = FeedPlain(PlainOf(first), stream1).sketch
      /\ second.sketch = FeedPlain(PlainOf(second), stream2).sketch
      /\ (topnLast.op = "add" /\ topnLast.error = "") =>
           LET stream == IF topnLast.which = 1 THEN stream1 ELSE stream2
               before == FeedPlain(PlainOf(Target(topnLast.which)),
                                   SubSeq(stream, 1, Len(stream) - 1))
           IN  topnLast.newFrequency
                 = _updateCms(before, stream[Len(stream)]).newFrequency

\* adds were made after the array was full, one of an item that the tracker
\* did not take, and a counter is shared by two items
TrackerDoesNotInfluenceMatrixWitness ==
    /\ unions = 0
    /\ topnLast.op = "add"
    /\ topnLast.error = ""
    /\ Len(topnLast.arrayBefore) = Target(topnLast.which).topnItemCount
    /\ ~topnLast.offers[1].updated
    /\ {"x", "w"} \subseteq Range(IF topnLast.which = 1 THEN stream1 ELSE stream2)

---------------------------------------------------------------------------
(* src/cms_topn.c: the transition functions of the aggregates.  The state  *)
(* of an aggregate is <<>> for SQL NULL and <<cmsTopn>> for a sketch.      *)

\* most calls of the transition function in one aggregate
MaxAggCalls == 3

\* an item argument that is SQL NULL
NullItem == "NULL"

\* the items an aggregate is run over: x and w of one type, and NULL
AggItems == {"x", "w", NullItem}

DEFAULT_ERROR_BOUND == "0.001"

DEFAULT_CONFIDENCE_INTERVAL == "0.99"

\* What the read of topnArray->elemtype through the NULL that TopnArray
\* returned can do: the backend is terminated by SIGSEGV, or the read yields
\* a value that is no type and lookup_type_cache raises an error.  Neither
\* returns a sketch.
NullArrayOutcomes == {"SIGSEGV", "ERROR"}

\* the sketch the transition functions work on: a new one for a NULL state
AggCmsTopn(state, topnItemCount, errorBound, confidenceInterval) ==
    IF state = <<>>
    THEN CreateCmsTopn(topnItemCount, SketchDepthFor(confidenceInterval),
                       SketchWidthFor(errorBound))
    ELSE state[1]

\* topnArray == NULL after the argument handling: the state was a sketch that
\* stores no array
AggArrayIsNull(state) == state # <<>> /\ state[1].elemtype = InvalidOid

\* the body of cms_topn_add_agg after the check of the call context: the
\* outcomes the call can have, each with the state it returns
CmsTopnAddAgg(state, newItem, topnItemCount) ==
    LET cmsTopn == AggCmsTopn(state, topnItemCount, DEFAULT_ERROR_BOUND,
                              DEFAULT_CONFIDENCE_INTERVAL)
        newItemType == TypeOf(newItem)
        counted == UpdateCountMinSketch(cmsTopn, newItem)
        offered == UpdateTopnArray(counted.cms, cmsTopn.topnArray, newItem,
                                   counted.newFrequency)
    IN  IF newItem = NullItem
        THEN { [outcome |-> "returned", state |-> <<cmsTopn>>] }
        ELSE IF AggArrayIsNull(state)
        THEN { [outcome |-> o, state |-> <<>>] : o \in NullArrayOutcomes }
        ELSE { [ outcome |-> "returned",
                 state |-> << FormCmsTopn(
                                [counted.cms EXCEPT
                                   !.minFrequencyOfTopnItems =
                                       offered.minFrequencyOfTopnItems,
                                   !.elemtype = IF state = <<>>
                                                THEN newItemType ELSE @],
                                offered.topnArray) >> ] }

\* the body of cms_topn_add_agg_with_parameters after the check of the call
\* context
CmsTopnAddAggWithParameters(state, newItem, topnItemCount, errorBound, confidenceInterval) ==
    LET cmsTopn == AggCmsTopn(state, topnItemCount, errorBound,
                              confidenceInterval)
    IN  IF newItem = NullItem
        THEN { [outcome |-> "returned", state |-> <<cmsTopn>>] }
        ELSE IF AggArrayIsNull(state)
        THEN { [outcome |-> o, state |-> <<>>] : o \in NullArrayOutcomes }
        ELSE { [ outcome |-> "returned",
                 state |-> << CmsTopnAddItem(cmsTopn, newItem).cms >> ] }

\* the outcomes of one call of the transition function of the aggregate
AggTransition(function, state, newItem, topnItemCount, errorBound, confidenceInterval) ==
    IF function = "cms_topn_add_agg"
    THEN CmsTopnAddAgg(state, newItem, topnItemCount)
    ELSE CmsTopnAddAggWithParameters(state, newItem, topnItemCount,
                                     errorBound, confidenceInterval)

\* the state change of a call of a transition function: the executor keeps
\* the returned state for the next row; the arguments after the item are the
\* same in every call of one aggregate
RecordAgg(function, newItem, topnItemCount, errorBound, confidenceInterval) ==
    /\ agg.outcome \in {"", "returned"}
    /\ agg.function \in {"", function}
    /\ agg.items # <<>> =>
         /\ agg.topnItemCount = topnItemCount
         /\ agg.errorBound = errorBound
         /\ agg.confidenceInterval = confidenceInterval
    /\ \E result \in AggTransition(function, agg.state, newItem, topnItemCount,
                                   errorBound, confidenceInterval) :
         agg' = [ state |-> result.state,
                  items |-> Append(agg.items, newItem),
                  function |-> function,
                  topnItemCount |-> topnItemCount,
                  errorBound |-> errorBound,
                  confidenceInterval |-> confidenceInterval,
                  outcome |-> result.outcome,
                  before |-> agg.state ]
    /\ UNCHANGED cmsVars
    /\ UNCHANGED topnVars
    /\ UNCHANGED mmsVars
    /\ UNCHANGED createLast
    /\ UNCHANGED wide
    /\ UNCHANGED storage

\* cms_topn_add_agg(state, item, topnItemCount)
cms_topn_add_agg(newItem, topnItemCount) ==
    /\ Len(agg.items) < MaxAggCalls
    /\ RecordAgg("cms_topn_add_agg", newItem, topnItemCount,
                 DEFAULT_ERROR_BOUND, DEFAULT_CONFIDENCE_INTERVAL)

\* cms_topn_add_agg_with_parameters(state, item, topnItemCount, errorBound,
\* confidenceInterval)
cms_topn_add_agg_with_parameters(newItem, topnItemCount, errorBound, confidenceInterval) ==
    /\ Len(agg.items) < MaxAggCalls
    /\ RecordAgg("cms_topn_add_agg_with_parameters", newItem, topnItemCount,
                 errorBound, confidenceInterval)

\* aggregates over up to MaxAggCalls rows, starting from the NULL state
NextAgg ==
    \/ \E newItem \in AggItems, topnItemCount \in {1, 2} :
         cms_topn_add_agg(newItem, topnItemCount)
    \/ \E newItem \in AggItems, topnItemCount \in {1, 2} :
         cms_topn_add_agg_with_parameters(newItem, topnItemCount, "0.95", "0.8")

SpecAgg == InitCms /\ [][NextAgg]_vars

\* the items of a sequence that are not NULL, in order
NonNullItems(items) == SelectSeq(items, LAMBDA item : item # NullItem)

\* the state of the aggregate of agg.function after the rows "items", none of
\* them NULL, from the state given
RECURSIVE AggStateAfter(_, _)
AggStateAfter(state, items) ==
    IF items = <<>> THEN state
    ELSE LET result == CHOOSE r \in AggTransition(agg.function, state,
                                  Head(items), agg.topnItemCount,
                                  agg.errorBound, agg.confidenceInterval) : TRUE
         IN  AggStateAfter(result.state, Tail(items))

\* C29: every call of a transition function returns a sketch; a call with a
\* NULL item returns the sketch it was given unchanged, or the new sketch
\* if the state was NULL; and the state after any rows is the state after
\* the same rows without the NULL items, so that rows after a NULL first
\* item are counted and tracked
NullItemsSkippedInAggregate ==
    agg.items # <<>> =>
      /\ agg.outcome = "returned"
      /\ (agg.items[Len(agg.items)] = NullItem /\ agg.before # <<>>) =>
           agg.state = agg.before
      /\ NonNullItems(agg.items) # <<>> =>
           agg.state = AggStateAfter(<<>>, NonNullItems(agg.items))

---------------------------------------------------------------------------
(* The user-facing add and union called with an operand that is SQL NULL.  *)
(* An operand or result is <<>> for NULL and <<sketch>> for a sketch.      *)

\* a cms_topn_add that returns NULL whenever one of its arguments is NULL
CmsTopnAddNullsStrict(cmsTopnArg, newItem) ==
    IF cmsTopnArg = <<>> \/ newItem = NullItem THEN <<>> ELSE cmsTopnArg

\* cms_topn_add of cms_topn.c with a NULL argument: the value returned by
\* the test of PG_ARGISNULL(0) or by the test of PG_ARGISNULL(1)
CmsTopnAddNulls(cmsTopnArg, newItem) ==
    IF cmsTopnArg = <<>> THEN <<>> ELSE cmsTopnArg

\* cms_add of cms_mms.c with a NULL argument
CmsMmsAddNulls(cmsArg, newItem) ==
    IF cmsArg = <<>> THEN <<>> ELSE cmsArg

\* cms_add of cms.c with a NULL argument
CmsAddNulls(cmsArg, newItem) ==
    IF cmsArg = <<>> THEN <<>> ELSE cmsArg

\* cms_topn_union of cms_topn.c with a NULL argument
CmsTopnUnionNulls(firstArg, secondArg) ==
    IF firstArg = <<>> /\ secondArg = <<>> THEN <<>>
    ELSE IF firstArg = <<>> THEN secondArg
    ELSE firstArg

\* cms_union of cms_mms.c with a NULL argument
CmsMmsUnionNulls(firstArg, secondArg) ==
    IF firstArg = <<>> /\ secondArg = <<>> THEN <<>>
    ELSE IF firstArg = <<>> THEN secondArg
    ELSE firstArg

\* the sketch operand of a call: 0 is NULL, 1 and 2 are the two top-n
\* sketches, or, for cms.c, 1 is the plain sketch
Operand(arg) ==
    IF arg = 0 THEN <<>>
    ELSE IF variant = "cms" THEN <<cms>>
    ELSE <<Target(arg)>>

\* the state change of a call with a NULL operand: the call returns a value
\* and assigns nothing; "given" are the operands as the call received them
RecordNulls(op, operands, item, returned) ==
    /\ topnLast' = [ op |-> op, which |-> operands[1], item |-> item,
                     operands |-> operands,
                     given |-> <<Operand(operands[1]), Operand(operands[2])>>,
                     sketchBefore |-> first.sketch,
                     arrayBefore |-> first.topnArray,
                     newFrequency |-> 0,
                     error |-> "", offers |-> <<>>,
                     rows |-> returned,
                     adds |-> topnLast.adds ]
    /\ UNCHANGED <<variant, first, second, stream1, stream2, unions>>
    /\ UNCHANGED cmsVars
    /\ UNCHANGED mmsVars
    /\ UNCHANGED createLast
    /\ UNCHANGED wide
    /\ UNCHANGED storage
    /\ UNCHANGED agg

\* cms_topn_add with a NULL sketch, a NULL item, or both
cms_topn_add_null(sketchArg, newItem) ==
    /\ variant = "cms_topn"
    /\ sketchArg = 0 \/ newItem = NullItem
    /\ RecordNulls("add_null", <<sketchArg, 0>>, newItem,
                   CmsTopnAddNulls(Operand(sketchArg), newItem))

\* cms_add of cms_mms.c with a NULL sketch, a NULL item, or both
cms_add_topn_null(sketchArg, newItem) ==
    /\ variant = "cms_mms"
    /\ sketchArg = 0 \/ newItem = NullItem
    /\ RecordNulls("add_null", <<sketchArg, 0>>, newItem,
                   CmsMmsAddNulls(Operand(sketchArg), newItem))

\* cms_add of cms.c with a NULL sketch, a NULL item, or both
cms_add_null(sketchArg, newItem) ==
    /\ variant = "cms"
    /\ sketchArg = 0 \/ newItem = NullItem
    /\ RecordNulls("add_null", <<sketchArg, 0>>, newItem,
                   CmsAddNulls(Operand(sketchArg), newItem))

\* cms_topn_union with one or two NULL operands
cms_topn_union_null(firstArg, secondArg) ==
    /\ variant = "cms_topn"
    /\ firstArg = 0 \/ secondArg = 0
    /\ RecordNulls("union_null", <<firstArg, secondArg>>, "",
                   CmsTopnUnionNulls(Operand(firstArg), Operand(secondArg)))

\* cms_union of cms_mms.c with one or two NULL operands
cms_union_null(firstArg, secondArg) ==
    /\ variant = "cms_mms"
    /\ firstArg = 0 \/ secondArg = 0
    /\ RecordNulls("union_null", <<firstArg, secondArg>>, "",
                   CmsMmsUnionNulls(Operand(firstArg), Operand(secondArg)))

\* cms_add of cms.c where the plain sketch is the one that runs
cms_add_plain(newItem) ==
    /\ variant = "cms"
    /\ cms_add(newItem)

\* a plain sketch, or two top-n sketches of capacity 2 of one implementation
InitNull == InitState({"cms", "cms_topn", "cms_mms"}, {2})

\* adds that fill the sketches, and the calls with NULL operands
NextNull ==
    \/ \E newItem \in {"x", "y"} : cms_add_plain(newItem)
    \/ \E which \in {1, 2}, newItem \in {"x", "y"} : cms_topn_add(which, newItem)
    \/ \E which \in {1, 2}, newItem \in {"x", "y"} : cms_add_topn(which, newItem)
    \/ \E sketchArg \in {0, 1, 2}, newItem \in {"x", NullItem} : cms_topn_add_null(sketchArg, newItem)
    \/ \E sketchArg \in {0, 1, 2}, newItem \in {"x", NullItem} : cms_add_topn_null(sketchArg, newItem)
    \/ \E sketchArg \in {0, 1}, newItem \in {"x", NullItem} : cms_add_null(sketchArg, newItem)
    \/ \E firstArg \in {0, 1, 2}, secondArg \in {0, 1, 2} : cms_topn_union_null(firstArg, secondArg)
    \/ \E firstArg \in {0, 1, 2}, secondArg \in {0, 1, 2} : cms_union_null(firstArg, secondArg)

SpecNull == InitNull /\ [][NextNull]_vars

\* C30: add with a NULL item returns the sketch it was given, its matrix,
\* array and threshold as they were; add on a NULL sketch returns NULL; a
\* union with one NULL operand returns the other operand as it is; a union
\* of two NULLs returns NULL
NullOperands ==
    /\ topnLast.op = "add_null" =>
         topnLast.rows = topnLast.given[1]
    /\ topnLast.op = "union_null" =>
         topnLast.rows = IF topnLast.operands[1] = 0
                         THEN topnLast.given[2]
                         ELSE topnLast.given[1]

\* add with a NULL item has returned a sketch that holds counts and a
\* tracked item
NullOperandsWitness ==
    /\ topnLast.op = "add_null"
    /\ topnLast.item = NullItem
    /\ topnLast.rows # <<>>
    /\ variant = "cms_topn"
    /\ topnLast.rows[1].topnArray # <<>>
    /\ \E k \in DOMAIN topnLast.rows[1].sketch : topnLast.rows[1].sketch[k] > 1

---------------------------------------------------------------------------
(* The value the user-facing estimates return for counters of the whole    *)
(* uint64 range.  A uint64 is the set of the positions of its set bits,    *)
(* bit 0 the lowest, as the masks are; an int32 is an integer.             *)

\* most calls of an estimate on counters drawn from Counters64
MaxWideCalls == 1

\* the bits of the int32 that PG_RETURN_INT32 returns
Int32Bits == 32

\* counter values: 0, 1, 3, 2^30, 2^31 - 1, 2^31, 2^31 + 1, 2^32, 2^32 + 1,
\* 2^63 and 2^64 - 1
Counters64 ==
    { {}, {0}, {0, 1}, {30}, 0..30, {31}, {0, 31}, {32}, {0, 32}, {63}, 0..63 }

\* a < b for two uint64 values: the highest bit in which they differ is set
\* in b
Uint64Less(a, b) ==
    LET differ == (a \ b) \cup (b \ a)
    IN  differ # {} /\ (CHOOSE bit \in differ : \A other \in differ : other <= bit) \in b

\* the for loop of _cmsEstimateHashedItemFrequency, of
\* CmsTopnEstimateHashedItemFrequency and of the copy in cms_mms.c, from row
\* hashIndex on, over the counters of the item in the rows
RECURSIVE EstimateLoop64(_, _, _)
EstimateLoop64(counters, hashIndex, minFrequency) ==
    IF hashIndex <= Len(counters)
    THEN LET counterFrequency == counters[hashIndex]
         IN  EstimateLoop64(counters, hashIndex + 1,
                            IF Uint64Less(counterFrequency, minFrequency)
                            THEN counterFrequency ELSE minFrequency)
    ELSE minFrequency

\* 2^bit
RECURSIVE PowerOfTwo(_)
PowerOfTwo(bit) == IF bit = 0 THEN 1 ELSE 2 * PowerOfTwo(bit - 1)

\* the sum of 2^bit over the bits of a set below bit 31
RECURSIVE SumOfBits(_)
SumOfBits(bits) ==
    IF bits = {} THEN 0
    ELSE LET bit == CHOOSE b \in bits : TRUE
         IN  PowerOfTwo(bit) + SumOfBits(bits \ {bit})

\* PG_RETURN_INT32(frequency) of a uint64: Int32GetDatum keeps the low 32
\* bits, and bit 31 is the sign of the int32
Int32OfUint64(frequency) ==
    LET low == { bit \in frequency : bit < Int32Bits - 1 }
    IN  IF (Int32Bits - 1) \in frequency
        THEN SumOfBits(low) - SumOfBits(0..(Int32Bits - 2)) - 1
        ELSE SumOfBits(low)

\* the state change of an estimate, by the function named, of an item whose
\* counters in the rows are the given ones and whose type is that of the
\* array
RecordWide(function, counters) ==
    /\ wide.calls < MaxWideCalls
    /\ LET frequency == EstimateLoop64(counters, 1, UINT64_MAX_Mask)
       IN  wide' = [ function |-> function, counters |-> counters,
                     frequency |-> frequency,
                     result |-> Int32OfUint64(frequency),
                     calls |-> wide.calls + 1 ]
    /\ UNCHANGED cmsVars
    /\ UNCHANGED topnVars
    /\ UNCHANGED mmsVars
    /\ UNCHANGED createLast
    /\ UNCHANGED agg
    /\ UNCHANGED storage

\* cms_get_frequency of cms.c
cms_get_frequency_cms(counters) ==
    /\ Len(counters) = cms.sketchDepth
    /\ RecordWide("cms_get_frequency of cms.c", counters)

\* cms_topn_frequency of cms_topn.c
cms_topn_frequency_wide(counters) ==
    /\ Len(counters) = first.sketchDepth
    /\ RecordWide("cms_topn_frequency", counters)

\* cms_get_frequency of cms_mms.c
cms_get_frequency_mms(counters) ==
    /\ Len(counters) = first.sketchDepth
    /\ RecordWide("cms_get_frequency of cms_mms.c", counters)

\* the estimates on sketches whose counters of the item hold any values
NextWide ==
    \/ \E counters \in [1..ModelDepth -> Counters64] : cms_get_frequency_cms(counters)
    \/ \E counters \in [1..ModelDepth -> Counters64] : cms_topn_frequency_wide(counters)
    \/ \E counters \in [1..ModelDepth -> Counters64] : cms_get_frequency_mms(counters)

SpecWide == InitCms /\ [][NextWide]_vars

\* the uint64 that has the value of a non-negative int32
RECURSIVE BitsOfInt32(_, _)
BitsOfInt32(value, bit) ==
    IF value = 0 THEN {}
    ELSE (IF value % 2 = 1 THEN {bit} ELSE {}) \cup BitsOfInt32(value \div 2, bit + 1)

\* the smallest of the counters
MinimumOfCounters64(counters) ==
    CHOOSE m \in { counters[i] : i \in DOMAIN counters } :
        \A i \in DOMAIN counters : ~Uint64Less(counters[i], m)

\* C31: the frequency a user-facing estimate returns is the smallest of the
\* D uint64 counters of the item, whatever values in 0 .. 2^64 - 1 the
\* counters hold
NoTruncationOfFrequencies ==
    wide.calls > 0 =>
      /\ wide.result >= 0
      /\ BitsOfInt32(wide.result, 0) = MinimumOfCounters64(wide.counters)

\* C32: mms_add ORs every one of the 64 bits of the mask it is given into
\* the sketch (the mask that reaches the update is the mask supplied, and
\* the new mask of the item holds all its bits), and mms_get_mask returns
\* every one of the 64 bits of the cell it selects
NoTruncationOfMasks ==
    /\ mmsLast.op = "mms_add" /\ mmsLast.adds > 0 =>
         /\ mmsLast.newItemMask = mmsLast.mask
         /\ mmsLast.mask \subseteq mmsLast.result
    /\ mmsLast.op = "mms_get_mask" =>
         mmsLast.result = _mmsEstimateItemMask(mms, mmsLast.item)

\* the sketches of the three files under add, and the top-n sketches under
\* estimate
NextCells ==
    \/ \E newItem \in Items : cms_add_plain(newItem)
    \/ \E which \in {1, 2}, newItem \in TopnItems : cms_topn_add(which, newItem)
    \/ \E which \in {1, 2}, newItem \in TopnItems : cms_add_topn(which, newItem)
    \/ \E which \in {1, 2}, item \in TopnItems : cms_topn_frequency(which, item)
    \/ \E which \in {1, 2}, item \in TopnItems : cms_get_frequency(which, item)

SpecCells == InitNull /\ [][NextCells]_vars

\* the bucket of an item in row i of a sketch: (h0 + i * h1) mod W
BucketIndex(c, item, i) ==
    (MurmurHash3_x64_128(item)[1] + i * MurmurHash3_x64_128(item)[2]) % c.sketchWidth

\* the flat positions of the D cells of an item: i * W + bucket
Positions(c, item) ==
    { i * c.sketchWidth + BucketIndex(c, item, i) : i \in 0..(c.sketchDepth - 1) }

\* every bucket of every item is below W and every flat position below D * W
InRange(c) ==
    \A item \in Items, i \in 0..(c.sketchDepth - 1) :
        /\ BucketIndex(c, item, i) \in 0..(c.sketchWidth - 1)
        /\ (i * c.sketchWidth + BucketIndex(c, item, i))
              \in 0..(c.sketchDepth * c.sketchWidth - 1)
        /\ (i * c.sketchWidth + BucketIndex(c, item, i)) \in DOMAIN c.sketch

\* the smallest counter of a matrix at the positions given
MinimumAt(sketch, positions) ==
    CHOOSE m \in { sketch[k] : k \in positions } :
        \A k \in positions : m <= sketch[k]

\* an add of the item that returned "result" read and wrote the D cells of
\* the item and no other
AddedAt(before, after, c, item, result) ==
    /\ { k \in DOMAIN after : after[k] # before[k] } \subseteq Positions(c, item)
    /\ result = MinimumAt(before, Positions(c, item)) + 1
    /\ \A k \in Positions(c, item) : after[k] >= result

\* C33: for every item and every row the bucket lies in 0 .. W - 1 and the
\* flat position in 0 .. D * W - 1; an add reads and writes the D cells at
\* these positions and no other cell, and an estimate reads the same cells
CellAccessInRange ==
    /\ InRange(cms) /\ InRange(first) /\ InRange(second)
    /\ cmsLast.op = "cms_add" =>
         AddedAt(cmsLast.before, cms.sketch, cms, cmsLast.item, cmsLast.result)
    /\ (topnLast.op = "add" /\ topnLast.error = "") =>
         AddedAt(topnLast.sketchBefore, Target(topnLast.which).sketch,
                 Target(topnLast.which), topnLast.item, topnLast.newFrequency)
    /\ (topnLast.op = "frequency" /\ topnLast.error = "") =>
         topnLast.newFrequency
           = MinimumAt(Target(topnLast.which).sketch,
                       Positions(Target(topnLast.which), topnLast.item))

\* an estimate has read the count of an added item one of whose cells a
\* colliding item had raised higher
CellAccessInRangeWitness ==
    /\ topnLast.op = "frequency"
    /\ topnLast.error = ""
    /\ topnLast.newFrequency >= 1
    /\ \E k \in Positions(Target(topnLast.which), topnLast.item) :
         Target(topnLast.which).sketch[k] > topnLast.newFrequency

ZeroMatrix(c) ==
    \A k \in DOMAIN c.sketch : c.sketch[k] = 0

\* C35: in every state reached by adds and unions, a top-n sketch tracks no
\* item if and only if every counter of its matrix is zero
EmptyTrackerIffZeroMatrix ==
    /\ (first.topnArray = <<>>) <=> ZeroMatrix(first)
    /\ (second.topnArray = <<>>) <=> ZeroMatrix(second)

\* a union has returned the first sketch, which tracks items, because the
\* second tracks none and has a matrix of zeros
EmptyTrackerIffZeroMatrixWitness ==
    /\ topnLast.op = "union"
    /\ topnLast.error = ""
    /\ second.topnArray = <<>>
    /\ ZeroMatrix(second)
    /\ first.topnArray # <<>>
    /\ first.sketch = topnLast.sketchBefore
    /\ ~ZeroMatrix(first)

\* C36: in every state reached by adds and unions, the stored threshold of a
\* sketch that tracks an item is at most the minimum of the counters of each
\* tracked item, the item's current estimate
StoredThresholdBelowTracked ==
    /\ \A i \in DOMAIN first.topnArray :
          first.minFrequencyOfTopnItems
             <= MinimumAt(first.sketch, Positions(first, first.topnArray[i]))
    /\ \A i \in DOMAIN second.topnArray :
          second.minFrequencyOfTopnItems
             <= MinimumAt(second.sketch, Positions(second, second.topnArray[i]))

\* a union has summed two matrices and offered the items of the second array
\* to the full first one, and left a threshold below the estimate of every
\* item the first array now holds
StoredThresholdBelowTrackedWitness ==
    /\ topnLast.op = "union"
    /\ topnLast.error = ""
    /\ Len(topnLast.offers) > 0
    /\ Len(first.topnArray) = first.topnItemCount
    /\ \A i \in DOMAIN first.topnArray :
          first.minFrequencyOfTopnItems
             < MinimumAt(first.sketch, Positions(first, first.topnArray[i]))

\* C37: right after an add on a top-n sketch has returned a frequency, the
\* added item is tracked, or the array is full and the current estimate of
\* every tracked item is at least the frequency returned
AddedItemNotLeftOut ==
    (topnLast.op = "add" /\ topnLast.error = "") =>
        LET c == Target(topnLast.which)
        IN  \/ \E i \in DOMAIN c.topnArray : c.topnArray[i] = topnLast.item
            \/ /\ Len(c.topnArray) = c.topnItemCount
               /\ \A i \in DOMAIN c.topnArray :
                     MinimumAt(c.sketch, Positions(c, c.topnArray[i]))
                        >= topnLast.newFrequency

\* an add has returned a frequency for an item that a full array did not take
AddedItemNotLeftOutWitness ==
    /\ topnLast.op = "add"
    /\ topnLast.error = ""
    /\ topnLast.newFrequency >= 1
    /\ Len(Target(topnLast.which).topnArray) = Target(topnLast.which).topnItemCount
    /\ \A i \in DOMAIN Target(topnLast.which).topnArray :
          Target(topnLast.which).topnArray[i] # topnLast.item

\* no counter of the matrix, and so no minimum of the counters of an item,
\* exceeds the number of adds
BoundedBy(c, adds) ==
    /\ \A k \in DOMAIN c.sketch : c.sketch[k] <= adds
    /\ \A item \in Items : MinimumAt(c.sketch, Positions(c, item)) <= adds

\* C38: in a sketch that only adds have changed, every counter and every
\* estimate is at most the number of adds made so far
CountersBoundedByAdds ==
    /\ BoundedBy(cms, SumOver(trueFrequency, Items))
    /\ BoundedBy(first, Len(stream1))
    /\ BoundedBy(second, Len(stream2))

\* three adds, two of them of one item, have left a counter of 2 or more in
\* the plain sketch, or three adds of more than one item in a top-n sketch
CountersBoundedByAddsWitness ==
    \/ /\ SumOver(trueFrequency, Items) = 3
       /\ \E item \in Items : trueFrequency[item] = 2
       /\ \E k \in DOMAIN cms.sketch : cms.sketch[k] >= 2
    \/ /\ Len(stream1) = 3
       /\ \E i, j \in DOMAIN stream1 : stream1[i] # stream1[j]
       /\ \E k \in DOMAIN first.sketch : first.sketch[k] >= 2

(***************************************************************************)
(* The space cms_mms.c reserves behind the matrix for the top-n array.     *)
(* Sizes are in bytes.  The array of a sketch is described by the sizes of *)
(* its items: ARR_SIZE is the overhead of a one-dimensional array without  *)
(* nulls plus the sizes of the items.                                      *)
(***************************************************************************)

MaxStores == 3

DEFAULT_TOPN_ITEM_SIZE == 16

\* ARR_OVERHEAD_NONULLS(1): the 16 bytes of ArrayType, one dimension and one
\* lower bound of 4 bytes each
TOPN_ARRAY_OVERHEAD == 24

\* the number of values of an int32 divided by DEFAULT_TOPN_ITEM_SIZE: 2^28
Int32ValuesPerItemSize == 268435456

\* the numbers of top-n items a sketch is created for: small ones, 2^27,
\* 2^28 and 2^28 + 1
StorageItemCounts == {1, 2, 3, 134217728, 268435456, 268435457}

\* the sizes of the items stored: an int8, and texts of different lengths
ItemSizes == {8, 16, 40, 200}

\* topnItemCount * DEFAULT_TOPN_ITEM_SIZE, a product of two ints, where the
\* arithmetic wraps
Int32TimesItemSize(topnItemCount) ==
    LET low == topnItemCount % Int32ValuesPerItemSize
    IN  IF low < Int32ValuesPerItemSize \div 2
        THEN DEFAULT_TOPN_ITEM_SIZE * low
        ELSE DEFAULT_TOPN_ITEM_SIZE * (low - Int32ValuesPerItemSize)

\* topnArrayReservedSize of _createCms.  A product that does not fit the int
\* is undefined: it wraps, and a negative value converted to Size is a
\* request palloc0 refuses, or it is computed exactly and refused as well.
_createCmsReserved(topnItemCount) ==
    IF topnItemCount < Int32ValuesPerItemSize \div 2
    THEN { [ error |-> "",
             topnArrayReservedSize |->
                 TOPN_ARRAY_OVERHEAD + DEFAULT_TOPN_ITEM_SIZE * topnItemCount ] }
    ELSE { [ error |-> "invalid memory alloc request size",
             topnArrayReservedSize |-> 0 ] }
         \cup
         (IF Int32TimesItemSize(topnItemCount) >= 0
          THEN { [ error |-> "",
                   topnArrayReservedSize |->
                       TOPN_ARRAY_OVERHEAD + Int32TimesItemSize(topnItemCount) ] }
          ELSE {})

RECURSIVE SumOfSizes(_)
SumOfSizes(items) ==
    IF items = <<>> THEN 0 ELSE Head(items) + SumOfSizes(Tail(items))

\* ARR_SIZE of a one-dimensional array of the items
ArraySize(items) ==
    TOPN_ARRAY_OVERHEAD + SumOfSizes(items)

\* _formCms: the space behind the matrix of the sketch it returns, into which
\* it copies newTopnArraySize bytes
_formCmsReserved(topnItemCount, topnArrayReservedSize, newTopnArraySize) ==
    IF newTopnArraySize > topnArrayReservedSize
    THEN LET averageTopnItemSize == newTopnArraySize \div topnItemCount
             topnItemSize == averageTopnItemSize * 2
             newItemsReservedSize == topnItemCount * topnItemSize
         IN  TOPN_ARRAY_OVERHEAD + newItemsReservedSize
    ELSE topnArrayReservedSize

\* the state change of _createCms called with the number of top-n items, the
\* other parameters being valid
create_storage(topnItemCount) ==
    /\ storage.status = ""
    /\ \E created \in _createCmsReserved(topnItemCount) :
          storage' = [ status |-> IF created.error = "" THEN "created" ELSE "error",
                       topnItemCount |-> topnItemCount,
                       topnArrayReservedSize |-> created.topnArrayReservedSize,
                       items |-> <<>>,
                       newTopnArraySize |-> 0,
                       calls |-> 0 ]
    /\ UNCHANGED cmsVars
    /\ UNCHANGED topnVars
    /\ UNCHANGED mmsVars
    /\ UNCHANGED createLast
    /\ UNCHANGED agg
    /\ UNCHANGED wide

\* the state change of an add whose call of _updateTopnArray returned the
\* array of the given items and reported a change, so that _formCms ran
RecordStore(items) ==
    /\ storage.status \in {"created", "stored"}
    /\ storage.calls < MaxStores
    /\ storage' = [ storage EXCEPT
                      !.status = "stored",
                      !.items = items,
                      !.newTopnArraySize = ArraySize(items),
                      !.topnArrayReservedSize =
                          _formCmsReserved(storage.topnItemCount,
                                           storage.topnArrayReservedSize,
                                           ArraySize(items)),
                      !.calls = @ + 1 ]
    /\ UNCHANGED cmsVars
    /\ UNCHANGED topnVars
    /\ UNCHANGED mmsVars
    /\ UNCHANGED createLast
    /\ UNCHANGED agg
    /\ UNCHANGED wide

\* cms_add of an item that _updateTopnArray appends to an array with room
cms_add_appending(itemSize) ==
    /\ Len(storage.items) < storage.topnItemCount
    /\ RecordStore(Append(storage.items, itemSize))

\* cms_add of an item that _updateTopnArray puts in the place of the entry
\* at itemIndex of a full array
cms_add_replacing(itemIndex, itemSize) ==
    /\ Len(storage.items) = storage.topnItemCount
    /\ itemIndex \in DOMAIN storage.items
    /\ RecordStore([storage.items EXCEPT ![itemIndex] = itemSize])

NextStorage ==
    \/ \E topnItemCount \in StorageItemCounts : create_storage(topnItemCount)
    \/ \E itemSize \in ItemSizes : cms_add_appending(itemSize)
    \/ \E itemIndex \in 1..MaxStores, itemSize \in ItemSizes :
          cms_add_replacing(itemIndex, itemSize)

SpecStorage == InitCms /\ [][NextStorage]_vars

\* C39: whenever _formCms has stored a top-n array, the space reserved behind
\* the matrix of the sketch it returned is at least the size of the array
ReservedStorageSufficient ==
    storage.status = "stored" =>
        storage.newTopnArraySize <= storage.topnArrayReservedSize

=============================================================================
